---- MODULE Spec2Model ----
(***************************************************************************)
(* classicpod_dashboard: the iPod service (src/ipod_service.py).           *)
(*                                                                         *)
(* Four state machines share this module.                                  *)
(*   the write calls : add_tracks / delete_tracks, two of them run         *)
(*              concurrently, serialised by _itunesdb_write_lock.          *)
(*   the read call : load_library with the recovery loop of                *)
(*              _run_gpod_ls_with_recovery over a changing filesystem.     *)
(*   the listing : load_library from the output of gpod-ls on:             *)
(*              parse_gpod_output and the snapshot, call after call.       *)
(*   the scan : _discover_ipod_roots_within, one turn of its loop a step.  *)
(* Spec is the program: a behaviour runs the write calls or the read call. *)
(* WriteFairSpec and FairSpec add the scheduling under which a running     *)
(* call takes its next step.  CallSpec runs one write call on its own and  *)
(* draws its arguments, the conversions and the output of the tools from   *)
(* richer sets; AnyCallSpec runs one call of any of the three operations.  *)
(* ReplugSpec runs the read call and records which device roots are new    *)
(* in a pass.  RaceSpec runs the read call beside one write call while     *)
(* another process holds the write lock of the device.  ListingSpec runs   *)
(* the listing over texts and libraries, ScanSpec the scan over            *)
(* filesystems with a third device.                                        *)
(* Time is a set of count-down timers; the action Tick lets one unit of    *)
(* time.monotonic() pass for every running timer.                          *)
(***************************************************************************)
EXTENDS Integers, Sequences, FiniteSets, TLC

VARIABLES
    \* ---- platform ----
    fcntlAvailable,   \* FALSE when "import fcntl" failed (fcntl = None)
    flocks,           \* the flock table: <<lock file, operation>> for every LOCK_EX held
    \* ---- one add_tracks / delete_tracks call per operation ----
    pc,               \* position of each operation
    kind,             \* "add" | "delete" | "none"
    caller,           \* the (cwd, mountpoint spelling) the operation was called with
    fd,               \* the lock file the operation's open descriptor refers to, or NoFile
    lockLeft,         \* time left to the deadline of _itunesdb_write_lock
    napLeft,          \* time left of time.sleep(0.1)
    toolLeft,         \* time left to the timeout of the running subprocess
    tool,             \* "idle" | "running": the gpod-cp / gpod-rm child process
    attempt,          \* "batch" | "fallback": which with-block of _run_gpod_rm
    nTargets,         \* number of rm targets of a delete
    idx,              \* index of the per-target loop of the fallback
    mergedRc,         \* merged.returncode of the fallback
    exc,              \* exception in flight through the finally block
    scratch,          \* the TemporaryDirectory of add_tracks exists
    spawned,          \* a tool process of this operation has run
    result,           \* outcome of the finished call
    ffmpegInstalled,  \* shutil.which finds ffmpeg and ffprobe
    inputs,           \* the file_paths / ipod_paths argument, until it has been read
    targets,          \* source_files of an add, rm_targets of a delete
    convertToAlac,    \* the convert_to_alac argument
    convAt,           \* position of the phase-1 loop in source_files
    convertedMap,     \* converted_map: <<src, dst>> for every converted source
    convertedCount,   \* converted_count
    conversionFailures, \* conversion_failures
    scratchFiles,     \* the files in the TemporaryDirectory
    toolStdout,       \* stdout of the CompletedProcess (merged, in the fallback)
    toolStderr,       \* stderr of the CompletedProcess (merged, in the fallback)
    summary,          \* the dict the finished call returned, or NoSummary
    detail,           \* the message of the GpodError raised for a nonzero return code
    \* ---- history of the call (not program state) ----
    attempted,        \* the sources _convert_flac_to_alac was called for
    launches,         \* the commands handed to subprocess.run, each with how it ended
    \* ---- the filesystem ----
    fs,               \* device -> "absent" | "empty" (its directory only) | "ready" (with database)
    \* ---- one load_library call ----
    lpc,              \* position of the call
    requested,        \* the mountpoint argument, as spelled
    recLeft,          \* time left to the deadline of the recovery loop
    attemptLeft,      \* time left to the timeout of the running gpod-ls
    sleepLeft,        \* time left of time.sleep(0.5)
    cands,            \* the candidates of the current pass
    ci,               \* index of the candidate the for-loop stands at
    sawAnyPath,       \* saw_any_path
    lastMissing,      \* last_missing_db_result, or NoResult
    lresult,          \* what load_library returned or raised
    lmount,           \* "mountpoint" of the returned snapshot
    lsOut,            \* outcome of the last gpod-ls attempt: its CompletedProcess, or TimedOut
    \* ---- history of the load_library call (not program state) ----
    everSaw,          \* some probe argument was seen on disk during the loop
    everMissing,      \* some missing-database result was captured during the loop
    replug,           \* the device roots with a database at the start of this pass, and
                      \* those of them that had none at the start of the pass before;
                      \* or NotRecorded
    \* ---- load_library from the listing on, called again and again ----
    readRequest,      \* the mountpoint argument of the calls
    db,               \* the library in the device database: what gpod-ls prints as ipod_data
    lsStdout,         \* result.stdout of the listing, as a sequence of tokens
    clock,            \* datetime.now, in ticks: every call takes one
    data,             \* data of the last call: the parsed payload, or NoData
    master,           \* master of the last call, or NoMaster
    snapshot,         \* what the last call returned or raised, or NoSnapshot
    \* ---- history (not program state) ----
    mutated,          \* the database was changed since the last call
    \* ---- one _discover_ipod_roots_within call ----
    scanPc,           \* position of the call
    scanBase,         \* the base argument
    scanOrd,          \* the order in which os.scandir yields during this call
    scanStack,        \* stack: (path, depth) entries still to be looked at
    scanRoots,        \* roots
    \* ---- history of the scan (not program state) ----
    scanVisited,      \* the (path, depth) entries popped so far
    scanErr           \* some os.scandir of the call raised OSError

callVars == <<ffmpegInstalled, inputs, targets, convertToAlac, convAt, convertedMap,
              convertedCount, conversionFailures, scratchFiles, toolStdout, toolStderr,
              summary, detail, attempted, launches>>

\* callVars without inputs
callRest == <<ffmpegInstalled, targets, convertToAlac, convAt, convertedMap, convertedCount,
              conversionFailures, scratchFiles, toolStdout, toolStderr, summary, detail,
              attempted, launches>>

lockVars == <<fcntlAvailable, flocks, pc, kind, caller, fd, lockLeft, napLeft,
              toolLeft, tool, attempt, nTargets, idx, mergedRc, exc, scratch,
              spawned, result, callVars>>

loadVars == <<fs, lpc, requested, recLeft, attemptLeft, sleepLeft, cands, ci, sawAnyPath,
              lastMissing, lresult, lmount, lsOut, everSaw, everMissing, replug>>

scanVars == <<scanPc, scanBase, scanOrd, scanStack, scanRoots, scanVisited, scanErr>>

\* the calls that are run on their own: the listing and the device scan
readVars == <<readRequest, db, lsStdout, clock, data, master, snapshot, mutated, scanVars>>

vars == <<lockVars, loadVars, readVars>>

-----------------------------------------------------------------------------
(* Bounds *)

\* timeout_seconds of add_tracks / delete_tracks, in time units
TimeoutSeconds == 1
\* largest number of rm targets / source files of one call
MaxTargets == 2

\* the recovery window of _run_gpod_ls_with_recovery, in time units
RecoveryWindow == 2
\* the per-attempt timeout of gpod-ls, in time units
AttemptTimeout == 1

\* time.sleep(0.1) of the lock poll: one time unit
NapTicks == 1
\* time.sleep(0.5) between two passes of the recovery loop: one time unit
SleepTicks == 1
\* max_depth of _discover_ipod_roots_within
MaxDepth == 2

Ops == {1, 2}
NoFile == <<"nofile">>

-----------------------------------------------------------------------------
(* Paths.  A path string is [lead, parts]: the number of leading slashes   *)
(* (0 = relative) and the components between slashes ("" for an empty      *)
(* component, as str.split("/") gives).                                    *)

Path(lead, parts) == [lead |-> lead, parts |-> parts]

\* posixpath.normpath: the components loop.  (Here and below a recursive operator binds
\* its arguments as the elements of singleton sets, so that each is evaluated once.)
RECURSIVE NormComps(_, _, _)
NormComps(comps, lead, acc) ==
    CHOOSE out \in
        { IF cs = << >> THEN ac
          ELSE LET c == Head(cs)
                   rest == Tail(cs)
               IN IF c = "" \/ c = "."
                  THEN NormComps(rest, lead, ac)
                  ELSE IF c # ".." \/ (lead = 0 /\ ac = << >>)
                                 \/ (ac # << >> /\ ac[Len(ac)] = "..")
                       THEN NormComps(rest, lead, Append(ac, c))
                       ELSE IF ac # << >>
                            THEN NormComps(rest, lead, SubSeq(ac, 1, Len(ac) - 1))
                            ELSE NormComps(rest, lead, ac)
          : cs \in {comps}, ac \in {acc} } : TRUE

\* posixpath.normpath: exactly two leading slashes are kept, three or more become one
Normpath(p) ==
    LET lead == IF p.lead = 2 THEN 2 ELSE IF p.lead = 0 THEN 0 ELSE 1
    IN Path(lead, NormComps(p.parts, lead, << >>))

\* os.path.abspath in a process whose working directory is cwd
Abspath(cwd, p) ==
    IF p.lead = 0
    THEN Normpath(Path(cwd.lead, cwd.parts \o p.parts))
    ELSE Normpath(p)

\* os.path.join of a path and more components
Join(root, comps) == Path(root.lead, root.parts \o comps)

\* os.path.basename
Basename(p) == IF p.parts = << >> THEN "" ELSE p.parts[Len(p.parts)]

\* The callers of the model: a working directory and a mountpoint spelling.
Cwd1 == Path(1, <<"mnt">>)
Cwd2 == Path(1, <<"srv">>)
Callers ==
    { [cwd |-> Cwd1, mp |-> Path(0, <<"ipod">>)],                         \* ipod, in /mnt
      [cwd |-> Cwd2, mp |-> Path(1, <<"mnt", "x", "..", "ipod", "">>)],   \* /mnt/x/../ipod/
      [cwd |-> Cwd2, mp |-> Path(0, <<"ipod">>)] }                        \* ipod, in /srv
\* Call 1 is made in /mnt with the relative spelling; call 2 by any caller: in the same
\* way, with another spelling of the same path, or for another path spelled the same.
CallersOf(o) ==
    IF o = 1 THEN {[cwd |-> Cwd1, mp |-> Path(0, <<"ipod">>)]} ELSE Callers
\* the empty mountpoint string
EmptyMount == [cwd |-> Cwd1, mp |-> Path(0, << >>)]
NoCaller == [cwd |-> Cwd1, mp |-> Path(0, <<"none">>)]

\* hashlib.sha1(normalized).hexdigest()[:16], taken as injective on the paths of the model
Digest(p) == <<"sha1", p.lead>> \o p.parts

\* the lock file of a mountpoint: _itunesdb_write_lock's lock_path
LockPathOfSpelling(cwd, mp) == <<"tmp", "classicpod_itunesdb_">> \o Digest(mp)
LockPath(cwd, mp) == <<"tmp", "classicpod_itunesdb_">> \o Digest(Abspath(cwd, mp))

LockFileOf(o) == LockPath(caller[o].cwd, caller[o].mp)
NormOf(o) == Abspath(caller[o].cwd, caller[o].mp)

\* a process other than this server that takes the same lock files
Foreign == 0
\* some descriptor holds LOCK_EX on the file
Locked(f) == \E h \in Ops \cup {Foreign} : <<f, h>> \in flocks

Max(a, b) == IF a >= b THEN a ELSE b
Dec(n) == IF n > 0 THEN n - 1 ELSE 0

-----------------------------------------------------------------------------
(* Strings.  A str is the sequence of its characters; an argument that is   *)
(* not a str (an int, None) carries no characters.                         *)

Str(cs) == [isStr |-> TRUE, chars |-> cs]
NotAStr == [isStr |-> FALSE, chars |-> << >>]

\* the characters str.strip() removes
Whitespace == {" ", "\n"}
\* the characters str.isdigit() accepts
Digits == {"1", "2"}

\* "".join(cs)
RECURSIVE Cat(_)
Cat(cs) == IF cs = << >> THEN "" ELSE Head(cs) \o Cat(Tail(cs))

RECURSIVE LStrip(_)
LStrip(s) == IF s # << >> /\ Head(s) \in Whitespace THEN LStrip(Tail(s)) ELSE s
RECURSIVE RStrip(_)
RStrip(s) ==
    IF s # << >> /\ s[Len(s)] \in Whitespace THEN RStrip(SubSeq(s, 1, Len(s) - 1)) ELSE s
\* str.strip()
Strip(s) == RStrip(LStrip(s))

\* str.isdigit()
IsDigit(s) == s # << >> /\ \A i \in 1..Len(s) : s[i] \in Digits

\* str.replace("\\", "/")
ReplaceBackslashes(s) == [i \in 1..Len(s) |-> IF s[i] = "\\" THEN "/" ELSE s[i]]

\* str.split("/"): the pieces between slashes, each a sequence of characters
RECURSIVE SplitLoop(_, _, _)
SplitLoop(s, cur, acc) ==
    IF s = << >> THEN Append(acc, cur)
    ELSE IF Head(s) = "/" THEN SplitLoop(Tail(s), << >>, Append(acc, cur))
    ELSE SplitLoop(Tail(s), Append(cur, Head(s)), acc)
Split(s) == SplitLoop(s, << >>, << >>)

\* str.startswith("/")
StartsWithSlash(s) == s # << >> /\ s[1] = "/"

\* the number of slashes a string begins with
RECURSIVE LeadingSlashes(_)
LeadingSlashes(s) ==
    IF s # << >> /\ Head(s) = "/" THEN 1 + LeadingSlashes(Tail(s)) ELSE 0

\* A string read as a path: its leading slashes and the pieces that follow them.
ToPath(s) ==
    LET n == LeadingSlashes(s)
        pieces == Split(SubSeq(s, n + 1, Len(s)))
    IN Path(n, [i \in 1..Len(pieces) |-> Cat(pieces[i])])

\* str.startswith("/..") of a normalised path n whose components are pieces of s:
\* one leading slash, then a component that begins with two dots.
StartsWithSlashDotDot(n, s) ==
    /\ n.lead = 1
    /\ n.parts # << >>
    /\ \E i \in 1..Len(Split(s)) :
         LET piece == Split(s)[i]
         IN /\ Cat(piece) = n.parts[1]
            /\ Len(piece) >= 2
            /\ piece[1] = "." /\ piece[2] = "."

\* _normalize_rm_targets: what one input adds to the targets, as the set of at most
\* one path string.  A numeric id is a relative path of one component.
RmTargetOf(raw) ==
    IF ~raw.isStr THEN {}
    ELSE LET token == Strip(raw.chars)
             slashed == ReplaceBackslashes(token)
             rawParts == SelectSeq(Split(slashed), LAMBDA part : part # << >>)
             rooted == IF StartsWithSlash(token) THEN slashed ELSE <<"/">> \o slashed
             normalized == Normpath(ToPath(rooted))
         IN IF token = << >> THEN {}
            ELSE IF IsDigit(token) THEN {Path(0, <<Cat(token)>>)}
            ELSE IF \E i \in 1..Len(rawParts) : rawParts[i] = <<".", ".">> THEN {}
            ELSE IF normalized = Path(1, << >>) THEN {}
            ELSE IF StartsWithSlashDotDot(normalized, rooted) THEN {}
            ELSE {normalized}

\* The loop of _normalize_rm_targets / _normalize_local_paths over what each input
\* adds: an addition already seen is skipped.
RECURSIVE Dedupe(_, _)
Dedupe(added, cleaned) ==
    IF added = << >> THEN cleaned
    ELSE LET new == { t \in Head(added) : \A i \in 1..Len(cleaned) : cleaned[i] # t }
         IN Dedupe(Tail(added),
                   IF new = {} THEN cleaned ELSE Append(cleaned, CHOOSE t \in new : TRUE))

NormalizeRmTargets(ipodPaths) ==
    Dedupe([i \in 1..Len(ipodPaths) |-> RmTargetOf(ipodPaths[i])], << >>)

-----------------------------------------------------------------------------
(* The arguments of a call, and the local files they name.                  *)

SeqsUpTo(S, n) == UNION { [1..k -> S] : k \in 0..n }

\* the music files on the local disk, all in /mnt
LocalFiles == { Path(1, <<"mnt", "a.flac">>), Path(1, <<"mnt", "b.mp3">>),
                Path(1, <<"mnt", "C.FLAC">>) }
\* os.path.isfile
IsLocalFile(p) == p \in LocalFiles

\* the file names of the model are a stem and an extension
Stems == {"a", "b", "C", "gone"}
Extensions == {".flac", ".FLAC", ".mp3"}
\* str.lower() of an extension
LowerExt(ext) == IF ext = ".FLAC" THEN ".flac" ELSE ext
\* src.lower().endswith(".flac")
EndsWithFlac(src) ==
    \E stem \in Stems, ext \in Extensions :
        Basename(src) = stem \o ext /\ LowerExt(ext) = ".flac"
\* os.path.splitext(os.path.basename(src))[0]
BaseName(src) ==
    CHOOSE stem \in Stems : \E ext \in Extensions : Basename(src) = stem \o ext

\* file_paths entries: a.flac, /mnt/a.flac, " b.mp3", C.FLAC, gone.flac (no such file),
\* the empty string, and something that is not a str
AddTokens ==
    { NotAStr, Str(<< >>), Str(<<"a", ".flac">>), Str(<<"/", "mnt", "/", "a", ".flac">>),
      Str(<<" ", "b", ".mp3">>), Str(<<"C", ".FLAC">>), Str(<<"gone", ".flac">>) }

\* ipod_paths entries: ids, paths spelled with and without leading slashes and
\* backslashes, blank strings, paths with ".." segments, roots, and a non-str
RmTokens ==
    { NotAStr, Str(<< >>), Str(<<" ">>), Str(<<"1", "2">>),
      Str(<<"/", "a", "/", "x">>), Str(<<"a", "/", "x">>),
      Str(<<"/", "/", "a", "/", "x">>), Str(<<"\\", "a", "\\", "x">>),
      Str(<<".", ".", "/", "x">>), Str(<<"/", ".", ".">>), Str(<<".", ".">>),
      Str(<<"/", ".", ".", "/", "x">>), Str(<<"a", "/", ".", ".", "/", "x">>),
      Str(<<"/">>), Str(<<"/", "/">>), Str(<<"/", "b">>) }

\* _normalize_local_paths: what one input adds to the source files
LocalPathOf(cwd, raw) ==
    IF ~raw.isStr THEN {}
    ELSE LET path == Abspath(cwd, ToPath(Strip(raw.chars)))
         IN IF ~IsLocalFile(path) THEN {} ELSE {path}

NormalizeLocalPaths(cwd, filePaths) ==
    Dedupe([i \in 1..Len(filePaths) |-> LocalPathOf(cwd, filePaths[i])], << >>)

\* n distinct ids: "1", "11", "111", ...
PlainIds(n) == [i \in 1..n |-> Str([j \in 1..i |-> "1"])]

\* The arguments of a call.  A call made on its own (no other call is to be made in the
\* run) takes any list of the tokens above; of two concurrent calls a delete takes a list
\* of ids and an add at most one FLAC file, converted or not, as the lock protocol
\* between them reads no more of the arguments than their number.
Alone(o) == \A p \in Ops \ {o} : pc[p] = "off"
CallInputs(o, k) ==
    IF Alone(o)
    THEN SeqsUpTo(IF k = "add" THEN AddTokens ELSE RmTokens, MaxTargets)
    ELSE IF k = "add" THEN { << >>, <<Str(<<"a", ".flac">>)>> }
         ELSE { PlainIds(n) : n \in 0..MaxTargets }
ConvertFlags(o, k) == IF k = "add" THEN BOOLEAN ELSE {FALSE}

\* the TemporaryDirectory of a call, and dst of a source at an index of source_files
TempDir(o) == Path(1, <<"tmp", "classicpod_add_" \o ToString(o)>>)
Dst(o, src, index) ==
    Join(TempDir(o), <<BaseName(src) \o "_" \o ToString(index) \o ".m4a">>)

\* converted_map.get(src, src)
MapGet(map, src) ==
    IF \E pair \in map : pair[1] = src
    THEN (CHOOSE pair \in map : pair[1] = src)[2]
    ELSE src

\* prepared_files
PreparedFilesAllOriginal(map, sourceFiles) == sourceFiles
PreparedFiles(map, sourceFiles) ==
    [i \in 1..Len(sourceFiles) |-> MapGet(map, sourceFiles[i])]

\* The output of a tool that exits: its return code and what it wrote.  A tool of two
\* concurrent calls writes nothing.
ToolOutputs(o) ==
    IF Alone(o)
    THEN [returncode : {0, 1}, stdout : {<< >>, <<"out">>},
          stderr : {<< >>, <<"\n">>, <<"err">>}]
    ELSE [returncode : {0, 1}, stdout : {<< >>}, stderr : {<< >>}]

\* merged.stdout + ("\n" if merged.stdout and res.stdout else "") + (res.stdout or "")
MergeText(merged, res) ==
    merged \o (IF merged # << >> /\ res # << >> THEN <<"\n">> ELSE << >>) \o res

\* result.stderr.strip() or result.stdout.strip() or "Unknown gpod-rm error."
FailureMessageStdoutFirst(stdout, stderr) ==
    IF Strip(stdout) # << >> THEN Strip(stdout)
    ELSE IF Strip(stderr) # << >> THEN Strip(stderr)
    ELSE <<"Unknown error.">>
FailureMessage(stdout, stderr) ==
    IF Strip(stderr) # << >> THEN Strip(stderr)
    ELSE IF Strip(stdout) # << >> THEN Strip(stdout)
    ELSE <<"Unknown error.">>

\* str(exc) of the GpodError _convert_flac_to_alac raises
ConversionError(installed) ==
    IF installed THEN "ALAC conversion failed" ELSE "Missing ffmpeg/ffprobe."

NoSummary == [raised |-> TRUE]
NoDetail == << >>
\* the dict add_tracks / delete_tracks return (without its stdout and stderr keys)
Summary(k, sourceFiles, count, failures) ==
    IF k = "add"
    THEN [requested_count |-> Len(sourceFiles), converted_count |-> count,
          conversion_failed_count |-> Len(failures), conversion_failures |-> failures]
    ELSE [requested_count |-> Len(sourceFiles)]

-----------------------------------------------------------------------------
(* add_tracks / delete_tracks *)

\* No call made yet ("idle"), or none to be made in this run ("off").
InitLocals ==
    /\ inputs = [o \in Ops |-> << >>]
    /\ targets = [o \in Ops |-> << >>]
    /\ convertToAlac = [o \in Ops |-> FALSE]
    /\ convAt = [o \in Ops |-> 0]
    /\ convertedMap = [o \in Ops |-> {}]
    /\ convertedCount = [o \in Ops |-> 0]
    /\ conversionFailures = [o \in Ops |-> << >>]
    /\ scratchFiles = [o \in Ops |-> {}]
    /\ toolStdout = [o \in Ops |-> << >>]
    /\ toolStderr = [o \in Ops |-> << >>]
    /\ summary = [o \in Ops |-> NoSummary]
    /\ detail = [o \in Ops |-> NoDetail]
    /\ attempted = [o \in Ops |-> {}]
    /\ launches = [o \in Ops |-> << >>]
    /\ kind = [o \in Ops |-> "none"]
    /\ caller = [o \in Ops |-> NoCaller]
    /\ fd = [o \in Ops |-> NoFile]
    /\ lockLeft = [o \in Ops |-> 0]
    /\ napLeft = [o \in Ops |-> 0]
    /\ toolLeft = [o \in Ops |-> 0]
    /\ tool = [o \in Ops |-> "idle"]
    /\ attempt = [o \in Ops |-> "batch"]
    /\ nTargets = [o \in Ops |-> 0]
    /\ idx = [o \in Ops |-> 0]
    /\ mergedRc = [o \in Ops |-> 0]
    /\ exc = [o \in Ops |-> "none"]
    /\ scratch = [o \in Ops |-> FALSE]
    /\ spawned = [o \in Ops |-> FALSE]
    /\ result = [o \in Ops |-> "none"]

InitOps(pc0) ==
    /\ flocks = {}
    /\ ffmpegInstalled = TRUE
    /\ pc = [o \in Ops |-> pc0]
    /\ InitLocals

\* The checks at the head of add_tracks and delete_tracks: the error they raise, or "none".
ValidateNoExistsCheck(c, exists, n) ==
    IF c = EmptyMount THEN "Mountpoint cannot be empty."
    ELSE IF n = 0 THEN "No valid input"
    ELSE "none"
Validate(c, exists, n) ==
    IF c = EmptyMount THEN "Mountpoint cannot be empty."
    ELSE IF ~exists THEN "Mountpoint does not exist"
    ELSE IF n = 0 THEN "No valid input"
    ELSE "none"

\* A call of add_tracks or delete_tracks begins: c is the caller's cwd and mountpoint,
\* exists the answer of os.path.exists(mountpoint), args the file_paths / ipod_paths
\* argument, conv the convert_to_alac argument.  The mountpoint checks come first, then
\* _normalize_local_paths / _normalize_rm_targets read the argument.
Start(o) ==
    /\ pc[o] = "idle"
    /\ UNCHANGED <<loadVars, readVars>>
    /\ \E k \in {"add", "delete"}, c \in CallersOf(o) \cup {EmptyMount}, exists \in BOOLEAN :
       \E conv \in ConvertFlags(o, k), args \in CallInputs(o, k) :
         LET cleaned == IF k = "add" THEN NormalizeLocalPaths(c.cwd, args)
                        ELSE NormalizeRmTargets(args)
             err == Validate(c, exists, Len(cleaned))
             read == c # EmptyMount /\ exists
         IN /\ inputs' = [inputs EXCEPT ![o] = IF read THEN args ELSE << >>]
            /\ IF err # "none"
               THEN /\ pc' = [pc EXCEPT ![o] = "done"]
                    /\ result' = [result EXCEPT ![o] = err]
                    /\ UNCHANGED <<kind, caller, nTargets, scratch, targets, convertToAlac,
                                   convAt>>
               ELSE /\ kind' = [kind EXCEPT ![o] = k]
                    /\ caller' = [caller EXCEPT ![o] = c]
                    /\ targets' = [targets EXCEPT ![o] = cleaned]
                    /\ convertToAlac' = [convertToAlac EXCEPT ![o] = conv]
                    /\ convAt' = [convAt EXCEPT ![o] = IF k = "add" THEN 1 ELSE 0]
                    /\ nTargets' = [nTargets EXCEPT ![o] =
                                       IF k = "delete" THEN Len(cleaned) ELSE 0]
                    /\ scratch' = [scratch EXCEPT ![o] = (k = "add")]
                    /\ pc' = [pc EXCEPT ![o] = IF k = "add" THEN "convert" ELSE "enter_lock"]
                    /\ UNCHANGED result
    /\ UNCHANGED <<fcntlAvailable, flocks, fd, lockLeft, napLeft, toolLeft, tool,
                   attempt, idx, mergedRc, exc, spawned>>
    /\ UNCHANGED <<ffmpegInstalled, convertedMap, convertedCount, conversionFailures,
                   scratchFiles, toolStdout, toolStderr, summary, detail, attempted,
                   launches>>

\* Phase 1 of add_tracks, one round of its loop over source_files: a source that does
\* not end in .flac is passed over; for any other _convert_flac_to_alac is called, which
\* raises GpodError when ffmpeg or ffprobe is missing or the conversion fails, and else
\* leaves dst in the scratch directory.  After the last round, or with convert_to_alac
\* off, phase 2 begins.
ConvertStopsAtFailure(o) ==
    /\ pc[o] = "convert"
    /\ UNCHANGED <<loadVars, readVars>>
    /\ inputs' = [inputs EXCEPT ![o] = << >>]
    /\ IF ~convertToAlac[o] \/ convAt[o] > Len(targets[o])
       THEN /\ pc' = [pc EXCEPT ![o] = "enter_lock"]
            /\ UNCHANGED <<convAt, convertedMap, convertedCount, conversionFailures,
                           scratchFiles, attempted>>
       ELSE LET src == targets[o][convAt[o]]
                dst == Dst(o, src, convAt[o] - 1)
            IN IF ~EndsWithFlac(src)
               THEN /\ convAt' = [convAt EXCEPT ![o] = convAt[o] + 1]
                    /\ UNCHANGED <<pc, convertedMap, convertedCount, conversionFailures,
                                   scratchFiles, attempted>>
               ELSE \E ok \in IF ffmpegInstalled THEN BOOLEAN ELSE {FALSE} :
                      /\ attempted' = [attempted EXCEPT ![o] = attempted[o] \cup {<<src, ok>>}]
                      /\ IF ok
                         THEN /\ convAt' = [convAt EXCEPT ![o] = convAt[o] + 1]
                              /\ convertedMap' = [convertedMap EXCEPT ![o] =
                                                     convertedMap[o] \cup {<<src, dst>>}]
                              /\ convertedCount' = [convertedCount EXCEPT ![o] =
                                                       convertedCount[o] + 1]
                              /\ scratchFiles' = [scratchFiles EXCEPT ![o] =
                                                     scratchFiles[o] \cup {dst}]
                              /\ UNCHANGED <<pc, conversionFailures>>
                         ELSE /\ pc' = [pc EXCEPT ![o] = "enter_lock"]
                              /\ conversionFailures' =
                                     [conversionFailures EXCEPT ![o] =
                                         Append(conversionFailures[o],
                                                [source |-> Basename(src),
                                                 error |-> ConversionError(ffmpegInstalled)])]
                              /\ UNCHANGED <<convAt, convertedMap, convertedCount,
                                             scratchFiles>>
    /\ UNCHANGED <<fcntlAvailable, flocks, kind, caller, fd, lockLeft, napLeft, toolLeft,
                   tool, attempt, nTargets, idx, mergedRc, exc, scratch, spawned, result>>
    /\ UNCHANGED <<ffmpegInstalled, targets, convertToAlac, toolStdout, toolStderr,
                   summary, detail, launches>>
\* add_tracks with its conversion loop left out
ConvertSkipped(o) ==
    /\ pc[o] = "convert"
    /\ UNCHANGED <<loadVars, readVars>>
    /\ inputs' = [inputs EXCEPT ![o] = << >>]
    /\ pc' = [pc EXCEPT ![o] = "enter_lock"]
    /\ UNCHANGED <<convAt, convertedMap, convertedCount, conversionFailures,
                   scratchFiles, attempted>>
    /\ UNCHANGED <<fcntlAvailable, flocks, kind, caller, fd, lockLeft, napLeft, toolLeft,
                   tool, attempt, nTargets, idx, mergedRc, exc, scratch, spawned, result>>
    /\ UNCHANGED <<ffmpegInstalled, targets, convertToAlac, toolStdout, toolStderr,
                   summary, detail, launches>>
Convert(o) ==
    /\ pc[o] = "convert"
    /\ UNCHANGED <<loadVars, readVars>>
    /\ inputs' = [inputs EXCEPT ![o] = << >>]
    /\ IF ~convertToAlac[o] \/ convAt[o] > Len(targets[o])
       THEN /\ pc' = [pc EXCEPT ![o] = "enter_lock"]
            /\ UNCHANGED <<convAt, convertedMap, convertedCount, conversionFailures,
                           scratchFiles, attempted>>
       ELSE LET src == targets[o][convAt[o]]
                dst == Dst(o, src, convAt[o] - 1)
            IN /\ convAt' = [convAt EXCEPT ![o] = convAt[o] + 1]
               /\ UNCHANGED pc
               /\ IF ~EndsWithFlac(src)
                  THEN UNCHANGED <<convertedMap, convertedCount, conversionFailures,
                                   scratchFiles, attempted>>
                  ELSE \E ok \in IF ffmpegInstalled THEN BOOLEAN ELSE {FALSE} :
                         /\ attempted' = [attempted EXCEPT ![o] =
                                             attempted[o] \cup {<<src, ok>>}]
                         /\ IF ok
                            THEN /\ convertedMap' = [convertedMap EXCEPT ![o] =
                                                        convertedMap[o] \cup {<<src, dst>>}]
                                 /\ convertedCount' = [convertedCount EXCEPT ![o] =
                                                          convertedCount[o] + 1]
                                 /\ scratchFiles' = [scratchFiles EXCEPT ![o] =
                                                        scratchFiles[o] \cup {dst}]
                                 /\ UNCHANGED conversionFailures
                            ELSE /\ conversionFailures' =
                                        [conversionFailures EXCEPT ![o] =
                                            Append(conversionFailures[o],
                                                   [source |-> Basename(src),
                                                    error |-> ConversionError(ffmpegInstalled)])]
                                 /\ UNCHANGED <<convertedMap, convertedCount, scratchFiles>>
    /\ UNCHANGED <<fcntlAvailable, flocks, kind, caller, fd, lockLeft, napLeft, toolLeft,
                   tool, attempt, nTargets, idx, mergedRc, exc, scratch, spawned, result>>
    /\ UNCHANGED <<ffmpegInstalled, targets, convertToAlac, toolStdout, toolStderr,
                   summary, detail, launches>>

\* _itunesdb_write_lock up to the poll loop: without fcntl the body runs with no lock;
\* otherwise the lock file is opened and the deadline set.
EnterLockNoFlock(o) ==
    /\ pc[o] = "enter_lock"
    /\ UNCHANGED <<loadVars, readVars>>
    /\ pc' = [pc EXCEPT ![o] = "exec"]
    /\ UNCHANGED <<fd, lockLeft>>
    /\ UNCHANGED <<fcntlAvailable, flocks, kind, caller, napLeft, toolLeft, tool, attempt,
                   nTargets, idx, mergedRc, exc, scratch, spawned, result>>
    /\ inputs' = [inputs EXCEPT ![o] = << >>]
    /\ UNCHANGED callRest
EnterLock(o) ==
    /\ pc[o] = "enter_lock"
    /\ UNCHANGED <<loadVars, readVars>>
    /\ IF ~fcntlAvailable
       THEN /\ pc' = [pc EXCEPT ![o] = "exec"]
            /\ UNCHANGED <<fd, lockLeft>>
       ELSE /\ fd' = [fd EXCEPT ![o] = LockFileOf(o)]
            /\ lockLeft' = [lockLeft EXCEPT ![o] = Max(TimeoutSeconds, 1)]
            /\ pc' = [pc EXCEPT ![o] = "poll"]
    /\ UNCHANGED <<fcntlAvailable, flocks, kind, caller, napLeft, toolLeft, tool, attempt,
                   nTargets, idx, mergedRc, exc, scratch, spawned, result>>
    /\ inputs' = [inputs EXCEPT ![o] = << >>]
    /\ UNCHANGED callRest

\* One round of the poll loop: flock(LOCK_EX | LOCK_NB); on BlockingIOError the deadline
\* check, then time.sleep(0.1).
PollNoDeadline(o) ==
    /\ pc[o] = "poll"
    /\ UNCHANGED <<loadVars, readVars>>
    /\ IF ~Locked(fd[o])
       THEN /\ flocks' = flocks \cup {<<fd[o], o>>}
            /\ pc' = [pc EXCEPT ![o] = "exec"]
            /\ lockLeft' = [lockLeft EXCEPT ![o] = 0]
            /\ UNCHANGED <<napLeft, exc>>
       ELSE /\ napLeft' = [napLeft EXCEPT ![o] = NapTicks]
            /\ pc' = [pc EXCEPT ![o] = "nap"]
            /\ UNCHANGED <<flocks, exc, lockLeft>>
    /\ UNCHANGED <<fcntlAvailable, kind, caller, fd, toolLeft, tool, attempt, nTargets,
                   idx, mergedRc, scratch, spawned, result>>
    /\ UNCHANGED callVars
\* the poll loop with the deadline looked at before the lock is tried
PollDeadlineFirst(o) ==
    /\ pc[o] = "poll"
    /\ UNCHANGED <<loadVars, readVars>>
    /\ IF lockLeft[o] = 0
       THEN /\ exc' = [exc EXCEPT ![o] = "LockTimeout"]
            /\ pc' = [pc EXCEPT ![o] = "release"]
            /\ UNCHANGED <<flocks, napLeft, lockLeft>>
       ELSE IF ~Locked(fd[o])
            THEN /\ flocks' = flocks \cup {<<fd[o], o>>}
                 /\ pc' = [pc EXCEPT ![o] = "exec"]
                 /\ lockLeft' = [lockLeft EXCEPT ![o] = 0]
                 /\ UNCHANGED <<napLeft, exc>>
            ELSE /\ napLeft' = [napLeft EXCEPT ![o] = NapTicks]
                 /\ pc' = [pc EXCEPT ![o] = "nap"]
                 /\ UNCHANGED <<flocks, exc, lockLeft>>
    /\ UNCHANGED <<fcntlAvailable, kind, caller, fd, toolLeft, tool, attempt, nTargets,
                   idx, mergedRc, scratch, spawned, result>>
    /\ UNCHANGED callVars
\* the poll loop taking a lock that excludes no other holder
PollShared(o) ==
    /\ pc[o] = "poll"
    /\ UNCHANGED <<loadVars, readVars>>
    /\ flocks' = flocks \cup {<<fd[o], o>>}
    /\ pc' = [pc EXCEPT ![o] = "exec"]
    /\ lockLeft' = [lockLeft EXCEPT ![o] = 0]
    /\ UNCHANGED <<napLeft, exc>>
    /\ UNCHANGED <<fcntlAvailable, kind, caller, fd, toolLeft, tool, attempt, nTargets,
                   idx, mergedRc, scratch, spawned, result>>
    /\ UNCHANGED callVars
Poll(o) ==
    /\ pc[o] = "poll"
    /\ UNCHANGED <<loadVars, readVars>>
    /\ IF ~Locked(fd[o])
       THEN /\ flocks' = flocks \cup {<<fd[o], o>>}
            /\ pc' = [pc EXCEPT ![o] = "exec"]
            /\ lockLeft' = [lockLeft EXCEPT ![o] = 0]
            /\ UNCHANGED <<napLeft, exc>>
       ELSE IF lockLeft[o] = 0
            THEN /\ exc' = [exc EXCEPT ![o] = "LockTimeout"]
                 /\ pc' = [pc EXCEPT ![o] = "release"]
                 /\ UNCHANGED <<flocks, napLeft, lockLeft>>
            ELSE /\ napLeft' = [napLeft EXCEPT ![o] = NapTicks]
                 /\ pc' = [pc EXCEPT ![o] = "nap"]
                 /\ UNCHANGED <<flocks, exc, lockLeft>>
    /\ UNCHANGED <<fcntlAvailable, kind, caller, fd, toolLeft, tool, attempt, nTargets,
                   idx, mergedRc, scratch, spawned, result>>
    /\ UNCHANGED callVars

\* time.sleep(0.1) returns.
Wake(o) ==
    /\ pc[o] = "nap"
    /\ UNCHANGED <<loadVars, readVars>>
    /\ napLeft[o] = 0
    /\ pc' = [pc EXCEPT ![o] = "poll"]
    /\ UNCHANGED <<fcntlAvailable, flocks, kind, caller, fd, lockLeft, napLeft, toolLeft,
                   tool, attempt, nTargets, idx, mergedRc, exc, scratch, spawned, result>>
    /\ UNCHANGED callVars

\* The command of the next subprocess.run: gpod-cp with prepared_files, gpod-rm with
\* the targets, or with target idx in the fallback.
Command(o) ==
    IF kind[o] = "add"
    THEN [tool |-> "gpod-cp", mountpoint |-> caller[o].mp,
          args |-> PreparedFiles(convertedMap[o], targets[o])]
    ELSE [tool |-> "gpod-rm", mountpoint |-> caller[o].mp,
          args |-> IF attempt[o] = "batch" THEN targets[o] ELSE <<targets[o][idx[o]]>>]

\* a subprocess.run call: its command, how it ended and the return code of an exit
Launch(cmd, end, rc) == [tool |-> cmd.tool, args |-> cmd.args, end |-> end, rc |-> rc]
\* the last call has ended
Ended(ls, end, rc) == [ls EXCEPT ![Len(ls)].end = end, ![Len(ls)].rc = rc]

\* subprocess.run launches gpod-cp / gpod-rm (the batch, or target idx of the fallback):
\* the child starts, or exec fails with FileNotFoundError or with OSError(E2BIG).
Exec(o) ==
    /\ pc[o] = "exec"
    /\ UNCHANGED <<loadVars, readVars>>
    /\ \E how \in {"spawn", "FileNotFoundError", "E2BIG"} :
         IF how = "spawn"
         THEN /\ tool' = [tool EXCEPT ![o] = "running"]
              /\ toolLeft' = [toolLeft EXCEPT ![o] = TimeoutSeconds]
              /\ spawned' = [spawned EXCEPT ![o] = TRUE]
              /\ pc' = [pc EXCEPT ![o] = "wait"]
              /\ launches' = [launches EXCEPT ![o] =
                                 Append(launches[o], Launch(Command(o), "running", 0))]
              /\ UNCHANGED exc
         ELSE /\ exc' = [exc EXCEPT ![o] = how]
              /\ pc' = [pc EXCEPT ![o] = "release"]
              /\ launches' = [launches EXCEPT ![o] =
                                 Append(launches[o], Launch(Command(o), how, 0))]
              /\ UNCHANGED <<tool, toolLeft, spawned>>
    /\ UNCHANGED <<fcntlAvailable, flocks, kind, caller, fd, lockLeft, napLeft, attempt,
                   nTargets, idx, mergedRc, scratch, result>>
    /\ UNCHANGED <<ffmpegInstalled, inputs, targets, convertToAlac, convAt, convertedMap,
                   convertedCount, conversionFailures, scratchFiles, toolStdout, toolStderr,
                   summary, detail, attempted>>

\* The child exits before the timeout with the output out.  In the fallback loop the
\* result is merged and the loop goes on unless the return code is nonzero or the
\* targets are used up.
ToolExitNoBreak(o) ==
    /\ pc[o] = "wait"
    /\ UNCHANGED <<loadVars, readVars>>
    /\ \E out \in ToolOutputs(o) :
         LET rc == out.returncode
         IN /\ tool' = [tool EXCEPT ![o] = "idle"]
            /\ toolLeft' = [toolLeft EXCEPT ![o] = 0]
            /\ launches' = [launches EXCEPT ![o] = Ended(launches[o], "exit", rc)]
            /\ IF attempt[o] = "batch"
               THEN /\ mergedRc' = [mergedRc EXCEPT ![o] = rc]
                    /\ toolStdout' = [toolStdout EXCEPT ![o] = out.stdout]
                    /\ toolStderr' = [toolStderr EXCEPT ![o] = out.stderr]
                    /\ pc' = [pc EXCEPT ![o] = "release"]
                    /\ UNCHANGED idx
               ELSE /\ mergedRc' = [mergedRc EXCEPT ![o] = IF rc # 0 THEN rc ELSE mergedRc[o]]
                    /\ toolStdout' = [toolStdout EXCEPT ![o] =
                                         MergeText(toolStdout[o], out.stdout)]
                    /\ toolStderr' = [toolStderr EXCEPT ![o] =
                                         MergeText(toolStderr[o], out.stderr)]
                    /\ IF idx[o] >= nTargets[o]
                       THEN /\ pc' = [pc EXCEPT ![o] = "release"]
                            /\ UNCHANGED idx
                       ELSE /\ pc' = [pc EXCEPT ![o] = "exec"]
                            /\ idx' = [idx EXCEPT ![o] = idx[o] + 1]
    /\ UNCHANGED <<fcntlAvailable, flocks, kind, caller, fd, lockLeft, napLeft, attempt,
                   nTargets, exc, scratch, spawned, result>>
    /\ UNCHANGED <<ffmpegInstalled, inputs, targets, convertToAlac, convAt, convertedMap,
                   convertedCount, conversionFailures, scratchFiles, summary, detail,
                   attempted>>
ToolExit(o) ==
    /\ pc[o] = "wait"
    /\ UNCHANGED <<loadVars, readVars>>
    /\ \E out \in ToolOutputs(o) :
         LET rc == out.returncode
         IN /\ tool' = [tool EXCEPT ![o] = "idle"]
            /\ toolLeft' = [toolLeft EXCEPT ![o] = 0]
            /\ launches' = [launches EXCEPT ![o] = Ended(launches[o], "exit", rc)]
            /\ IF attempt[o] = "batch"
               THEN /\ mergedRc' = [mergedRc EXCEPT ![o] = rc]
                    /\ toolStdout' = [toolStdout EXCEPT ![o] = out.stdout]
                    /\ toolStderr' = [toolStderr EXCEPT ![o] = out.stderr]
                    /\ pc' = [pc EXCEPT ![o] = "release"]
                    /\ UNCHANGED idx
               ELSE /\ mergedRc' = [mergedRc EXCEPT ![o] = IF rc # 0 THEN rc ELSE mergedRc[o]]
                    /\ toolStdout' = [toolStdout EXCEPT ![o] =
                                         MergeText(toolStdout[o], out.stdout)]
                    /\ toolStderr' = [toolStderr EXCEPT ![o] =
                                         MergeText(toolStderr[o], out.stderr)]
                    /\ IF rc # 0 \/ idx[o] >= nTargets[o]
                       THEN /\ pc' = [pc EXCEPT ![o] = "release"]
                            /\ UNCHANGED idx
                       ELSE /\ pc' = [pc EXCEPT ![o] = "exec"]
                            /\ idx' = [idx EXCEPT ![o] = idx[o] + 1]
    /\ UNCHANGED <<fcntlAvailable, flocks, kind, caller, fd, lockLeft, napLeft, attempt,
                   nTargets, exc, scratch, spawned, result>>
    /\ UNCHANGED <<ffmpegInstalled, inputs, targets, convertToAlac, convAt, convertedMap,
                   convertedCount, conversionFailures, scratchFiles, summary, detail,
                   attempted>>

\* The timeout of subprocess.run expires: the child is killed and reaped, TimeoutExpired
\* is raised.
ToolTimeout(o) ==
    /\ pc[o] = "wait"
    /\ UNCHANGED <<loadVars, readVars>>
    /\ toolLeft[o] = 0
    /\ tool' = [tool EXCEPT ![o] = "idle"]
    /\ exc' = [exc EXCEPT ![o] = "TimeoutExpired"]
    /\ pc' = [pc EXCEPT ![o] = "release"]
    /\ UNCHANGED <<fcntlAvailable, flocks, kind, caller, fd, lockLeft, napLeft, toolLeft,
                   attempt, nTargets, idx, mergedRc, scratch, spawned, result>>
    /\ launches' = [launches EXCEPT ![o] = Ended(launches[o], "TimeoutExpired", 0)]
    /\ UNCHANGED <<ffmpegInstalled, inputs, targets, convertToAlac, convAt, convertedMap,
                   convertedCount, conversionFailures, scratchFiles, toolStdout, toolStderr,
                   summary, detail, attempted>>

\* What the call ends with once the lock is released: the GpodError that add_tracks /
\* delete_tracks raise for the exception in flight or for a nonzero return code, or "ok".
Outcome(e, rc) ==
    IF e = "LockTimeout" THEN "Timed out waiting for iTunesDB write lock."
    ELSE IF e = "FileNotFoundError" THEN "tool is not installed"
    ELSE IF e = "TimeoutExpired" THEN "Timed out"
    ELSE IF e = "E2BIG" THEN "Too many arguments"
    ELSE IF rc # 0 THEN "tool failed"
    ELSE "ok"

GpodErrors == {"Mountpoint cannot be empty.", "Mountpoint does not exist", "No valid input",
               "Timed out waiting for iTunesDB write lock.", "tool is not installed",
               "Timed out", "Too many arguments", "tool failed"}

\* The locals of a call go out of scope when it ends.
CallEnds(o) ==
    /\ kind' = [kind EXCEPT ![o] = "none"]
    /\ caller' = [caller EXCEPT ![o] = NoCaller]
    /\ attempt' = [attempt EXCEPT ![o] = "batch"]
    /\ idx' = [idx EXCEPT ![o] = 0]
    /\ mergedRc' = [mergedRc EXCEPT ![o] = 0]
    /\ nTargets' = [nTargets EXCEPT ![o] = 0]
    /\ exc' = [exc EXCEPT ![o] = "none"]
    /\ inputs' = [inputs EXCEPT ![o] = << >>]
    /\ targets' = [targets EXCEPT ![o] = << >>]
    /\ convertToAlac' = [convertToAlac EXCEPT ![o] = FALSE]
    /\ convAt' = [convAt EXCEPT ![o] = 0]
    /\ convertedMap' = [convertedMap EXCEPT ![o] = {}]
    /\ convertedCount' = [convertedCount EXCEPT ![o] = 0]
    /\ conversionFailures' = [conversionFailures EXCEPT ![o] = << >>]
    /\ toolStdout' = [toolStdout EXCEPT ![o] = << >>]
    /\ toolStderr' = [toolStderr EXCEPT ![o] = << >>]
    /\ attempted' = [attempted EXCEPT ![o] = {}]
    /\ launches' = [launches EXCEPT ![o] = << >>]

\* What follows the with-block: _run_gpod_rm turns E2BIG of the batch into the
\* per-target fallback, which enters the lock again; otherwise the call ends: it returns
\* its dict, or raises the GpodError of the exception in flight or of the nonzero return
\* code, and the TemporaryDirectory of add_tracks is removed with all that is in it.
AfterLockKeepsScratchOnError(o) ==
    IF kind[o] = "delete" /\ attempt[o] = "batch" /\ exc[o] = "E2BIG"
    THEN /\ attempt' = [attempt EXCEPT ![o] = "fallback"]
         /\ idx' = [idx EXCEPT ![o] = 1]
         /\ mergedRc' = [mergedRc EXCEPT ![o] = 0]
         /\ exc' = [exc EXCEPT ![o] = "none"]
         /\ pc' = [pc EXCEPT ![o] = "enter_lock"]
         /\ UNCHANGED <<result, scratch, nTargets, kind, caller>>
         /\ UNCHANGED <<inputs, targets, convertToAlac, convAt, convertedMap, convertedCount,
                        conversionFailures, scratchFiles, toolStdout, toolStderr, summary,
                        detail, attempted, launches>>
    ELSE /\ result' = [result EXCEPT ![o] = Outcome(exc[o], mergedRc[o])]
         /\ detail' = [detail EXCEPT ![o] =
                          IF exc[o] = "none" /\ mergedRc[o] # 0
                          THEN FailureMessage(toolStdout[o], toolStderr[o])
                          ELSE NoDetail]
         /\ summary' = [summary EXCEPT ![o] =
                           IF Outcome(exc[o], mergedRc[o]) = "ok"
                           THEN Summary(kind[o], targets[o], convertedCount[o],
                                        conversionFailures[o])
                           ELSE NoSummary]
         /\ IF Outcome(exc[o], mergedRc[o]) = "ok"
            THEN /\ scratch' = [scratch EXCEPT ![o] = FALSE]
                 /\ scratchFiles' = [scratchFiles EXCEPT ![o] = {}]
            ELSE UNCHANGED <<scratch, scratchFiles>>
         /\ pc' = [pc EXCEPT ![o] = "done"]
         /\ CallEnds(o)
AfterLock(o) ==
    IF kind[o] = "delete" /\ attempt[o] = "batch" /\ exc[o] = "E2BIG"
    THEN /\ attempt' = [attempt EXCEPT ![o] = "fallback"]
         /\ idx' = [idx EXCEPT ![o] = 1]
         /\ mergedRc' = [mergedRc EXCEPT ![o] = 0]
         /\ exc' = [exc EXCEPT ![o] = "none"]
         /\ pc' = [pc EXCEPT ![o] = "enter_lock"]
         /\ UNCHANGED <<result, scratch, nTargets, kind, caller>>
         /\ UNCHANGED <<inputs, targets, convertToAlac, convAt, convertedMap, convertedCount,
                        conversionFailures, scratchFiles, toolStdout, toolStderr, summary,
                        detail, attempted, launches>>
    ELSE /\ result' = [result EXCEPT ![o] = Outcome(exc[o], mergedRc[o])]
         /\ detail' = [detail EXCEPT ![o] =
                          IF exc[o] = "none" /\ mergedRc[o] # 0
                          THEN FailureMessage(toolStdout[o], toolStderr[o])
                          ELSE NoDetail]
         /\ summary' = [summary EXCEPT ![o] =
                           IF Outcome(exc[o], mergedRc[o]) = "ok"
                           THEN Summary(kind[o], targets[o], convertedCount[o],
                                        conversionFailures[o])
                           ELSE NoSummary]
         /\ scratch' = [scratch EXCEPT ![o] = FALSE]
         /\ scratchFiles' = [scratchFiles EXCEPT ![o] = {}]
         /\ pc' = [pc EXCEPT ![o] = "done"]
         /\ CallEnds(o)

\* The finally block of _itunesdb_write_lock: flock(LOCK_UN), then os.close(fd); then
\* the code after the with-block.
ReleaseNoFinally(o) ==
    /\ pc[o] = "release"
    /\ UNCHANGED <<loadVars, readVars>>
    /\ AfterLock(o)
    /\ UNCHANGED <<fcntlAvailable, flocks, fd, lockLeft, napLeft, toolLeft, tool, spawned>>
    /\ UNCHANGED ffmpegInstalled
\* the lock kept by a delete whose batch could not be executed
ReleaseKeptForFallback(o) ==
    /\ pc[o] = "release"
    /\ UNCHANGED <<loadVars, readVars>>
    /\ flocks' = IF kind[o] = "delete" /\ attempt[o] = "batch" /\ exc[o] = "E2BIG"
                 THEN flocks
                 ELSE flocks \ {<<fd[o], o>>}
    /\ fd' = [fd EXCEPT ![o] = NoFile]
    /\ lockLeft' = [lockLeft EXCEPT ![o] = 0]
    /\ AfterLock(o)
    /\ UNCHANGED <<fcntlAvailable, napLeft, toolLeft, tool, spawned>>
    /\ UNCHANGED ffmpegInstalled
Release(o) ==
    /\ pc[o] = "release"
    /\ UNCHANGED <<loadVars, readVars>>
    /\ flocks' = flocks \ {<<fd[o], o>>}
    /\ fd' = [fd EXCEPT ![o] = NoFile]
    /\ lockLeft' = [lockLeft EXCEPT ![o] = 0]
    /\ AfterLock(o)
    /\ UNCHANGED <<fcntlAvailable, napLeft, toolLeft, tool, spawned>>
    /\ UNCHANGED ffmpegInstalled

\* One unit of time passes for every running timer.
Tick ==
    /\ \/ \E o \in Ops : lockLeft[o] > 0 \/ napLeft[o] > 0 \/ toolLeft[o] > 0
       \/ recLeft > 0 \/ attemptLeft > 0 \/ sleepLeft > 0
    /\ lockLeft' = [o \in Ops |-> Dec(lockLeft[o])]
    /\ napLeft' = [o \in Ops |-> Dec(napLeft[o])]
    /\ toolLeft' = [o \in Ops |-> Dec(toolLeft[o])]
    /\ recLeft' = Dec(recLeft)
    /\ attemptLeft' = Dec(attemptLeft)
    /\ sleepLeft' = Dec(sleepLeft)
    /\ UNCHANGED <<fcntlAvailable, flocks, pc, kind, caller, fd, tool, attempt, nTargets,
                   idx, mergedRc, exc, scratch, spawned, result>>
    /\ UNCHANGED callVars
    /\ UNCHANGED <<fs, lpc, requested, cands, replug, ci, sawAnyPath, lastMissing, lresult, lmount,
                   lsOut, everSaw, everMissing>>
    /\ UNCHANGED readVars

OpStep(o) ==
    \/ Start(o)
    \/ Convert(o)
    \/ EnterLock(o)
    \/ Poll(o)
    \/ Wake(o)
    \/ Exec(o)
    \/ ToolExit(o)
    \/ ToolTimeout(o)
    \/ Release(o)

-----------------------------------------------------------------------------
(* The filesystem: two devices that come and go below /media.              *)


\* the known database sub-paths
DbSubPaths == << <<"iPod_Control", "iTunes", "iTunesDB">>,
                 <<"iTunes_Control", "iTunes", "iTunesDB">>,
                 <<"iPod_Control", "iTunesDB">> >>

ItunesdbPathsForRoot(root) == [i \in 1..3 |-> Join(root, DbSubPaths[i])]

Devices == {"dev1", "dev2"}
\* for the scan alone, a third device whose root is the directory above the second's
ScanDevices == Devices \cup {"dev3"}
\* where a device is mounted, and which sub-path holds its database
DevRoot(d) ==
    IF d = "dev1" THEN <<"media", "ipod">>
    ELSE IF d = "dev2" THEN <<"media", "max", "IPOD">>
    ELSE <<"media", "max">>
DevLayout(d) == IF d = "dev1" THEN 1 ELSE 3
DevDb(d) == DevRoot(d) \o DbSubPaths[DevLayout(d)]
\* what can be on disk of a device: nothing, its directory only, or its directory with
\* the database; no request of the model names the second device's directory, so its
\* bare directory is not told apart from its absence
DevStates(d) == IF d = "dev1" THEN {"absent", "empty", "ready"} ELSE {"absent", "ready"}
\* directories that are always there
StaticDirs == { << >>, <<"media">>, <<"media", "max">> }

IsPrefix(a, b) == Len(a) <= Len(b) /\ SubSeq(b, 1, Len(a)) = a
Prefixes(q) == { SubSeq(q, 1, n) : n \in 0..(Len(q) - 1) }

\* os.path.isfile / os.path.isdir / os.path.exists on the current filesystem
IsFile(p) == p.lead > 0 /\ \E d \in DOMAIN fs : fs[d] = "ready" /\ p.parts = DevDb(d)
IsDir(p) ==
    /\ p.lead > 0
    /\ \/ p.parts \in StaticDirs
       \/ \E d \in DOMAIN fs :
            \/ fs[d] # "absent" /\ p.parts = DevRoot(d)
            \/ fs[d] = "ready" /\ IsPrefix(DevRoot(d), p.parts) /\ p.parts \in Prefixes(DevDb(d))
Exists(p) == IsFile(p) \/ IsDir(p)

\* every directory the model can hold, in one listing order
DirList == << <<"media">>, <<"media", "ipod">>, <<"media", "max">>, <<"media", "max", "IPOD">>,
              <<"media", "ipod", "iPod_Control">>, <<"media", "ipod", "iPod_Control", "iTunes">>,
              <<"media", "max", "IPOD", "iPod_Control">>, <<"media", "max", "iPod_Control">> >>
Reverse(q) == [i \in 1..Len(q) |-> q[Len(q) + 1 - i]]
\* os.scandir yields entries in arbitrary order; no directory of the model has more than
\* two sub-directories, and no scan lists two directories that have two, so a listing
\* order and its reverse give every order.
ScanOrders == { DirList, Reverse(DirList) }

\* the sub-directories os.scandir(dir) yields, in the order ord, as stack entries
ScanDirs(dir, depth, ord) ==
    LET kids == SelectSeq(ord, LAMBDA q : /\ Len(q) = Len(dir.parts) + 1
                                          /\ IsPrefix(dir.parts, q)
                                          /\ IsDir(Path(dir.lead, q)))
    IN [i \in 1..Len(kids) |-> [path |-> Path(dir.lead, kids[i]), depth |-> depth + 1]]

HasItunesdbUnderRoot(root) == \E i \in 1..3 : IsFile(ItunesdbPathsForRoot(root)[i])
\* the device roots that hold a database now
ReadyRoots == { Path(1, DevRoot(d)) : d \in { e \in Devices : fs[e] = "ready" } }

\* the while-loop of _discover_ipod_roots_within: pop, test, push the sub-directories
RECURSIVE DiscoverLoop(_, _, _)
DiscoverLoop(stack, roots, ord) ==
    CHOOSE out \in
        { IF st = << >> THEN rs
          ELSE LET top == st[Len(st)]
                   rest == SubSeq(st, 1, Len(st) - 1)
               IN IF HasItunesdbUnderRoot(top.path)
                  THEN DiscoverLoop(rest, Append(rs, top.path), ord)
                  ELSE IF top.depth >= MaxDepth
                       THEN DiscoverLoop(rest, rs, ord)
                       ELSE DiscoverLoop(rest \o ScanDirs(top.path, top.depth, ord), rs, ord)
          : st \in {stack}, rs \in {roots} } : TRUE

DiscoverIpodRootsWithin(base, ord) ==
    IF ~IsDir(base) THEN << >>
    ELSE DiscoverLoop(<<[path |-> base, depth |-> 0]>>, << >>, ord)

-----------------------------------------------------------------------------
(* _discover_ipod_roots_within, step by step *)

\* the base directories a scan is asked for; the last one is not on disk
ScanBases == { Path(1, << >>), Path(1, <<"media">>), Path(1, <<"media", "max">>),
               Path(1, <<"media", "ipod">>), Path(1, <<"media", "max", "IPOD">>),
               Path(1, <<"media", "none">>) }

ScanOff ==
    /\ scanPc = "off"
    /\ scanBase = Path(0, << >>)
    /\ scanOrd = << >>
    /\ scanStack = << >>
    /\ scanRoots = << >>
    /\ scanVisited = {}
    /\ scanErr = FALSE

\* The call begins: a base that is not a directory returns [] at once, else the stack
\* holds the base at depth 0.
ScanStart ==
    /\ scanPc = "idle"
    /\ \E base \in ScanBases, ord \in ScanOrders :
         /\ scanBase' = base
         /\ scanOrd' = ord
         /\ IF ~IsDir(base)
            THEN scanPc' = "done" /\ scanStack' = << >>
            ELSE scanPc' = "run" /\ scanStack' = <<[path |-> base, depth |-> 0]>>
    /\ UNCHANGED <<scanRoots, scanVisited, scanErr>>
    /\ UNCHANGED <<lockVars, loadVars>>
    /\ UNCHANGED <<readRequest, db, lsStdout, clock, data, master, snapshot, mutated>>

\* One turn of the while-loop: pop; a directory with a database is a root; one at the
\* depth bound is left alone; else its sub-directories are pushed, unless os.scandir
\* raises OSError.
ScanStepDescendsBelowRoot ==
    /\ scanPc = "run"
    /\ scanStack # << >>
    /\ LET top == scanStack[Len(scanStack)]
           rest == SubSeq(scanStack, 1, Len(scanStack) - 1)
       IN /\ scanVisited' = scanVisited \cup {top}
          /\ scanRoots' = IF HasItunesdbUnderRoot(top.path)
                          THEN Append(scanRoots, top.path) ELSE scanRoots
          /\ IF top.depth >= MaxDepth
             THEN scanStack' = rest /\ UNCHANGED scanErr
             ELSE \E raised \in BOOLEAN :
                    /\ scanErr' = (scanErr \/ raised)
                    /\ scanStack' = IF raised THEN rest
                                    ELSE rest \o ScanDirs(top.path, top.depth, scanOrd)
    /\ UNCHANGED <<scanPc, scanBase, scanOrd>>
    /\ UNCHANGED <<lockVars, loadVars>>
    /\ UNCHANGED <<readRequest, db, lsStdout, clock, data, master, snapshot, mutated>>
ScanStep ==
    /\ scanPc = "run"
    /\ scanStack # << >>
    /\ LET top == scanStack[Len(scanStack)]
           rest == SubSeq(scanStack, 1, Len(scanStack) - 1)
       IN /\ scanVisited' = scanVisited \cup {top}
          /\ IF HasItunesdbUnderRoot(top.path)
             THEN /\ scanRoots' = Append(scanRoots, top.path)
                  /\ scanStack' = rest
                  /\ UNCHANGED scanErr
             ELSE IF top.depth >= MaxDepth
             THEN /\ scanStack' = rest
                  /\ UNCHANGED <<scanRoots, scanErr>>
             ELSE /\ \E raised \in BOOLEAN :
                       /\ scanErr' = (scanErr \/ raised)
                       /\ scanStack' = IF raised THEN rest
                                       ELSE rest \o ScanDirs(top.path, top.depth, scanOrd)
                  /\ UNCHANGED scanRoots
    /\ UNCHANGED <<scanPc, scanBase, scanOrd>>
    /\ UNCHANGED <<lockVars, loadVars>>
    /\ UNCHANGED <<readRequest, db, lsStdout, clock, data, master, snapshot, mutated>>

\* The stack is empty: return roots.
ScanReturn ==
    /\ scanPc = "run"
    /\ scanStack = << >>
    /\ scanPc' = "done"
    /\ UNCHANGED <<scanBase, scanOrd, scanStack, scanRoots, scanVisited, scanErr>>
    /\ UNCHANGED <<lockVars, loadVars>>
    /\ UNCHANGED <<readRequest, db, lsStdout, clock, data, master, snapshot, mutated>>

-----------------------------------------------------------------------------
(* Candidates *)

\* the working directory of the process that calls load_library
LoadCwd == Path(1, <<"media">>)

Range(q) == { q[i] : i \in 1..Len(q) }

\* add() of _gpod_ls_candidates
AddCandidateAlways(list, lsArg, eff) ==
    Append(list, [arg |-> Abspath(LoadCwd, lsArg), eff |-> Abspath(LoadCwd, eff)])
AddCandidate(list, lsArg, eff) ==
    CHOOSE out \in
        { IF key \in Range(l) THEN l ELSE Append(l, key)
          : l \in {list},
            key \in {[arg |-> Abspath(LoadCwd, lsArg), eff |-> Abspath(LoadCwd, eff)]} } : TRUE

\* for db_path in _itunesdb_paths_for_root(root): add(db_path, root)
RECURSIVE AddDbPaths(_, _, _)
AddDbPaths(list, root, i) ==
    CHOOSE out \in
        { IF i > 3 THEN l
          ELSE AddDbPaths(AddCandidate(l, ItunesdbPathsForRoot(r)[i], r), r, i + 1)
          : l \in {list}, r \in {root} } : TRUE

\* for discovered_root in ...: add(discovered_root, discovered_root), then its db paths
RECURSIVE AddDiscovered(_, _)
AddDiscovered(list, roots) ==
    CHOOSE out \in
        { IF rs = << >> THEN l
          ELSE AddDiscovered(AddDbPaths(AddCandidate(l, Head(rs), Head(rs)), Head(rs), 1),
                             Tail(rs))
          : l \in {list}, rs \in {roots} } : TRUE

\* str.lower() on the names of the model
Lower(name) == IF name = "iTunesDB" THEN "itunesdb" ELSE name
Dirname(p) == IF p.parts = << >> THEN p ELSE Path(p.lead, SubSeq(p.parts, 1, Len(p.parts) - 1))

GpodLsCandidates(requestedMountpoint, ord) ==
    CHOOSE out \in
        { LET first == AddCandidate(<< >>, mountpoint, mountpoint)
          IN IF IsFile(mountpoint) /\ Lower(Basename(mountpoint)) = "itunesdb"
             THEN LET parentMount == Dirname(Dirname(mountpoint))
                  IN AddCandidate(first, parentMount, parentMount)
             ELSE IF IsDir(mountpoint)
                  THEN AddDiscovered(AddDbPaths(first, mountpoint, 1),
                                     DiscoverIpodRootsWithin(mountpoint, ord))
                  ELSE first
          : mountpoint \in {Abspath(LoadCwd, requestedMountpoint)} } : TRUE

-----------------------------------------------------------------------------
(* load_library *)

Requests == { Path(1, <<"media">>),                 \* /media: the devices lie below it
              Path(0, <<"ipod">>),                  \* ipod, in /media: a device root
              Path(1, DevDb("dev1")) }              \* the database leaf file of dev1
EmptyRequest == Path(0, << >>)

NoResult == [eff |-> EmptyRequest, msg |-> "none"]
NoOut == [rc |-> -1, stdout |-> "", stderr |-> ""]
TimedOut == [rc |-> -2, stdout |-> "", stderr |-> ""]
NoMount == EmptyRequest
\* the history of the passes is not kept
NotRecorded == [recorded |-> FALSE]

MissingMsg == "Couldn't find an iPod database on /x."
ParseMsg == "Failed to parse iTunesDB"
HardMsg == "Permission denied"
\* what a gpod-ls run that ends can print: exit 0 with a JSON payload or without one,
\* or a nonzero exit with any of the messages on either stream
LsOutputs ==
    { [rc |-> 0, stdout |-> t, stderr |-> ""] : t \in {"json", "garbage"} }
      \cup { [rc |-> 1, stdout |-> a, stderr |-> b] : a \in {"", MissingMsg, HardMsg}, b \in {"", MissingMsg, ParseMsg, HardMsg} }

\* result.stderr.strip() or result.stdout.strip() or "Unknown gpod-ls error."
Message(out) ==
    IF out.stderr # "" THEN out.stderr
    ELSE IF out.stdout # "" THEN out.stdout
    ELSE "Unknown gpod-ls error."

\* message.lower(), as the set of the phrases the classifier looks for that it contains
Lowered(message) ==
    IF message = MissingMsg THEN {"couldn't find an ipod database"}
    ELSE IF message = ParseMsg THEN {"failed to parse itunesdb"}
    ELSE {}

LooksLikeMissingItunesdb(message) ==
    LET lowered == Lowered(message)
    IN \/ "couldn't find an ipod database" \in lowered
       \/ "failed to parse itunesdb" \in lowered
       \/ "failed to prase itunesdb" \in lowered

Ret(k, m) == [kind |-> k, msg |-> m]
NoRet == Ret("none", "")

\* load_library after _run_gpod_ls_with_recovery has returned (eff, out): the error for a
\* nonzero exit, else the parse of stdout and the snapshot.
AfterRecovery(out) ==
    IF out.rc # 0
    THEN IF LooksLikeMissingItunesdb(Message(out))
         THEN Ret("gpod-ls could not find a readable iTunesDB yet", "")
         ELSE Ret("gpod-ls failed", Message(out))
    ELSE IF out.stdout = "json" THEN Ret("ok", "")
    ELSE Ret("Could not parse JSON output from gpod-ls.", "")

LoadErrors == {"Mountpoint cannot be empty.", "gpod-ls is not installed",
               "gpod-ls could not find a readable iTunesDB yet", "gpod-ls failed",
               "Could not parse JSON output from gpod-ls.", "Timed out reading iTunesDB",
               "Mountpoint is present but iTunesDB is not readable yet",
               "Mountpoint became unavailable"}

InitLoad(lpc0) ==
    /\ lpc = lpc0
    /\ requested = EmptyRequest
    /\ recLeft = 0
    /\ attemptLeft = 0
    /\ sleepLeft = 0
    /\ cands = << >>
    /\ ci = 0
    /\ sawAnyPath = FALSE
    /\ lastMissing = NoResult
    /\ lresult = NoRet
    /\ lmount = NoMount
    /\ lsOut = NoOut
    /\ everSaw = FALSE
    /\ everMissing = FALSE

\* The device is plugged, unplugged, or its database becomes readable or unreadable.
\* The loop reads the filesystem where it generates the candidates and where it tests a
\* probe argument; a change made while gpod-ls runs or while the loop sleeps shows at
\* the next of these reads, and is taken there.
FsChange(d) ==
    /\ lpc \in {"pass", "cand"}
    /\ \E st \in DevStates(d) :
         /\ st # fs[d]
         /\ fs' = [fs EXCEPT ![d] = st]
    /\ UNCHANGED <<lockVars, readVars>>
    /\ UNCHANGED <<lpc, requested, recLeft, attemptLeft, sleepLeft, cands, replug, ci, sawAnyPath,
                   lastMissing, lresult, lmount, lsOut, everSaw, everMissing>>

\* load_library is called: the empty mountpoint is refused, else the recovery loop's
\* deadline is set.
LoadStart ==
    /\ lpc = "idle"
    /\ \E r \in Requests \cup {EmptyRequest} :
         IF r = EmptyRequest
         THEN /\ lpc' = "done"
              /\ lresult' = Ret("Mountpoint cannot be empty.", "")
              /\ UNCHANGED <<requested, recLeft>>
         ELSE /\ requested' = r
              /\ recLeft' = RecoveryWindow
              /\ lpc' = "pass"
              /\ UNCHANGED lresult
    /\ UNCHANGED <<lockVars, readVars>>
    /\ UNCHANGED <<fs, attemptLeft, sleepLeft, cands, replug, ci, sawAnyPath, lastMissing, lmount,
                   lsOut, everSaw, everMissing>>

\* The head of the while-loop: the flags are reset and the candidates generated anew.
\* a variant that generates the candidates once, before the first pass
PassStartKeepsCandidates ==
    /\ lpc = "pass"
    /\ sawAnyPath' = FALSE
    /\ lastMissing' = NoResult
    /\ \E ord \in ScanOrders :
         cands' = IF cands = << >> THEN GpodLsCandidates(requested, ord) ELSE cands
    /\ replug' = IF replug = NotRecorded THEN NotRecorded
                 ELSE [ready |-> ReadyRoots,
                       new |-> IF cands = << >> THEN {} ELSE ReadyRoots \ replug.ready]
    /\ ci' = 1
    /\ lpc' = "cand"
    /\ UNCHANGED <<lockVars, readVars>>
    /\ UNCHANGED <<fs, requested, recLeft, attemptLeft, sleepLeft, lresult, lmount, lsOut,
                   everSaw, everMissing>>
PassStart ==
    /\ lpc = "pass"
    /\ sawAnyPath' = FALSE
    /\ lastMissing' = NoResult
    /\ \E ord \in ScanOrders : cands' = GpodLsCandidates(requested, ord)
    /\ replug' = IF replug = NotRecorded THEN NotRecorded
                 ELSE [ready |-> ReadyRoots,
                       new |-> IF cands = << >> THEN {} ELSE ReadyRoots \ replug.ready]
    /\ ci' = 1
    /\ lpc' = "cand"
    /\ UNCHANGED <<lockVars, readVars>>
    /\ UNCHANGED <<fs, requested, recLeft, attemptLeft, sleepLeft, lresult, lmount, lsOut,
                   everSaw, everMissing>>

\* The for-loop takes the next candidate: one whose probe argument is not on disk is
\* skipped; else gpod-ls is launched on it (or is not installed).
ProbeNoExistsCheck ==
    /\ lpc = "cand"
    /\ ci <= Len(cands)
    /\ sawAnyPath' = TRUE
    /\ everSaw' = TRUE
    /\ attemptLeft' = AttemptTimeout
    /\ lpc' = "ls"
    /\ UNCHANGED <<lresult, ci>>
    /\ UNCHANGED <<lockVars, readVars>>
    /\ UNCHANGED <<fs, requested, recLeft, sleepLeft, cands, replug, lastMissing, lmount, lsOut,
                   everMissing>>
\* a variant that takes a missing gpod-ls for a device that is still settling
ProbeToleratesMissingTool ==
    /\ lpc = "cand"
    /\ ci <= Len(cands)
    /\ IF ~Exists(cands[ci].arg)
       THEN /\ ci' = ci + 1
            /\ UNCHANGED <<lpc, sawAnyPath, everSaw, attemptLeft, lresult>>
       ELSE /\ sawAnyPath' = TRUE
            /\ everSaw' = TRUE
            /\ \E how \in {"spawn", "FileNotFoundError"} :
                 IF how = "spawn"
                 THEN /\ attemptLeft' = AttemptTimeout
                      /\ lpc' = "ls"
                      /\ UNCHANGED <<lresult, ci>>
                 ELSE /\ ci' = ci + 1
                      /\ UNCHANGED <<lpc, lresult, attemptLeft>>
    /\ UNCHANGED <<lockVars, readVars>>
    /\ UNCHANGED <<fs, requested, recLeft, sleepLeft, cands, replug, lastMissing, lmount, lsOut,
                   everMissing>>
\* a probe made only while nobody holds the write lock of the candidate's root
ProbeUnderWriteLock ==
    /\ lpc = "cand"
    /\ ci <= Len(cands)
    /\ ~Locked(LockPath(LoadCwd, cands[ci].eff))
    /\ IF ~Exists(cands[ci].arg)
       THEN /\ ci' = ci + 1
            /\ UNCHANGED <<lpc, sawAnyPath, everSaw, attemptLeft, lresult>>
       ELSE /\ sawAnyPath' = TRUE
            /\ everSaw' = TRUE
            /\ \E how \in {"spawn", "FileNotFoundError"} :
                 IF how = "spawn"
                 THEN /\ attemptLeft' = AttemptTimeout
                      /\ lpc' = "ls"
                      /\ UNCHANGED lresult
                 ELSE /\ lpc' = "done"
                      /\ lresult' = Ret("gpod-ls is not installed", "")
                      /\ UNCHANGED attemptLeft
            /\ UNCHANGED ci
    /\ UNCHANGED <<lockVars, readVars>>
    /\ UNCHANGED <<fs, requested, recLeft, sleepLeft, cands, replug, lastMissing, lmount, lsOut,
                   everMissing>>
Probe ==
    /\ lpc = "cand"
    /\ ci <= Len(cands)
    /\ IF ~Exists(cands[ci].arg)
       THEN /\ ci' = ci + 1
            /\ UNCHANGED <<lpc, sawAnyPath, everSaw, attemptLeft, lresult>>
       ELSE /\ sawAnyPath' = TRUE
            /\ everSaw' = TRUE
            /\ \E how \in {"spawn", "FileNotFoundError"} :
                 IF how = "spawn"
                 THEN /\ attemptLeft' = AttemptTimeout
                      /\ lpc' = "ls"
                      /\ UNCHANGED lresult
                 ELSE /\ lpc' = "done"
                      /\ lresult' = Ret("gpod-ls is not installed", "")
                      /\ UNCHANGED attemptLeft
            /\ UNCHANGED ci
    /\ UNCHANGED <<lockVars, readVars>>
    /\ UNCHANGED <<fs, requested, recLeft, sleepLeft, cands, replug, lastMissing, lmount, lsOut,
                   everMissing>>

\* gpod-ls ends before its timeout: exit 0 returns the candidate's effective root; a
\* missing-database message is remembered and the loop goes on; any other failure
\* returns.
LsExitReturnsMissing ==
    /\ lpc = "ls"
    /\ \E out \in LsOutputs :
         /\ lsOut' = out
         /\ attemptLeft' = 0
         /\ lresult' = AfterRecovery(out)
         /\ lmount' = IF out.rc = 0 /\ out.stdout = "json" THEN cands[ci].eff ELSE NoMount
         /\ lpc' = "done"
         /\ UNCHANGED <<lastMissing, everMissing, ci>>
    /\ UNCHANGED <<lockVars, readVars>>
    /\ UNCHANGED <<fs, requested, recLeft, sleepLeft, cands, replug, sawAnyPath, everSaw>>
\* a variant that moves on to the next candidate after any nonzero exit
LsExitToleratesFailure ==
    /\ lpc = "ls"
    /\ \E out \in LsOutputs :
         /\ lsOut' = out
         /\ attemptLeft' = 0
         /\ IF out.rc # 0
            THEN /\ ci' = ci + 1
                 /\ lpc' = "cand"
                 /\ UNCHANGED <<lresult, lmount, lastMissing, everMissing>>
            ELSE /\ lresult' = AfterRecovery(out)
                 /\ lmount' = IF out.stdout = "json" THEN cands[ci].eff ELSE NoMount
                 /\ lpc' = "done"
                 /\ UNCHANGED <<lastMissing, everMissing, ci>>
    /\ UNCHANGED <<lockVars, readVars>>
    /\ UNCHANGED <<fs, requested, recLeft, sleepLeft, cands, replug, sawAnyPath, everSaw>>
LsExit ==
    /\ lpc = "ls"
    /\ \E out \in LsOutputs :
         /\ lsOut' = out
         /\ attemptLeft' = 0
         /\ IF out.rc # 0 /\ LooksLikeMissingItunesdb(Message(out))
            THEN /\ lastMissing' = [eff |-> cands[ci].eff, msg |-> Message(out)]
                 /\ everMissing' = TRUE
                 /\ ci' = ci + 1
                 /\ lpc' = "cand"
                 /\ UNCHANGED <<lresult, lmount>>
            ELSE /\ lresult' = AfterRecovery(out)
                 /\ lmount' = IF out.rc = 0 /\ out.stdout = "json"
                              THEN cands[ci].eff ELSE NoMount
                 /\ lpc' = "done"
                 /\ UNCHANGED <<lastMissing, everMissing, ci>>
    /\ UNCHANGED <<lockVars, readVars>>
    /\ UNCHANGED <<fs, requested, recLeft, sleepLeft, cands, replug, sawAnyPath, everSaw>>

\* gpod-ls runs into its timeout: tolerated before the deadline, an error after it.
LsTimeoutRaises ==
    /\ lpc = "ls"
    /\ attemptLeft = 0
    /\ lsOut' = TimedOut
    /\ lpc' = "done"
    /\ lresult' = Ret("Timed out reading iTunesDB", "")
    /\ UNCHANGED ci
    /\ UNCHANGED <<lockVars, readVars>>
    /\ UNCHANGED <<fs, requested, recLeft, attemptLeft, sleepLeft, cands, replug, sawAnyPath,
                   lastMissing, lmount, everSaw, everMissing>>
LsTimeout ==
    /\ lpc = "ls"
    /\ attemptLeft = 0
    /\ lsOut' = TimedOut
    /\ IF recLeft = 0
       THEN /\ lpc' = "done"
            /\ lresult' = Ret("Timed out reading iTunesDB", "")
            /\ UNCHANGED ci
       ELSE /\ lpc' = "cand"
            /\ ci' = ci + 1
            /\ UNCHANGED lresult
    /\ UNCHANGED <<lockVars, readVars>>
    /\ UNCHANGED <<fs, requested, recLeft, attemptLeft, sleepLeft, cands, replug, sawAnyPath,
                   lastMissing, lmount, everSaw, everMissing>>

\* What the loop ends with when the deadline has passed at the end of a pass: the
\* remembered missing-database result, which load_library turns into its error, or the
\* error the loop raises itself.
DeadlineOutcomeNoMissing(lm, saw) ==
    IF saw
    THEN Ret("Mountpoint is present but iTunesDB is not readable yet", "")
    ELSE Ret("Mountpoint became unavailable", "")
DeadlineOutcomeNoSaw(lm, saw) ==
    IF lm # NoResult
    THEN AfterRecovery([rc |-> 1, stdout |-> "", stderr |-> lm.msg])
    ELSE Ret("Mountpoint became unavailable", "")
DeadlineOutcome(lm, saw) ==
    IF lm # NoResult
    THEN AfterRecovery([rc |-> 1, stdout |-> "", stderr |-> lm.msg])
    ELSE IF saw
         THEN Ret("Mountpoint is present but iTunesDB is not readable yet", "")
         ELSE Ret("Mountpoint became unavailable", "")

\* The for-loop is through: past the deadline the loop ends; before it, time.sleep(0.5).
PassEndNoDeadline ==
    /\ lpc = "cand"
    /\ ci > Len(cands)
    /\ lpc' = "sleep"
    /\ sleepLeft' = SleepTicks
    /\ UNCHANGED lresult
    /\ UNCHANGED <<lockVars, readVars>>
    /\ UNCHANGED <<fs, requested, recLeft, attemptLeft, cands, replug, ci, sawAnyPath, lastMissing,
                   lmount, lsOut, everSaw, everMissing>>
PassEnd ==
    /\ lpc = "cand"
    /\ ci > Len(cands)
    /\ IF recLeft = 0
       THEN /\ lpc' = "done"
            /\ lresult' = DeadlineOutcome(lastMissing, sawAnyPath)
            /\ UNCHANGED sleepLeft
       ELSE /\ lpc' = "sleep"
            /\ sleepLeft' = SleepTicks
            /\ UNCHANGED lresult
    /\ UNCHANGED <<lockVars, readVars>>
    /\ UNCHANGED <<fs, requested, recLeft, attemptLeft, cands, replug, ci, sawAnyPath, lastMissing,
                   lmount, lsOut, everSaw, everMissing>>

\* time.sleep(0.5) returns.
LoadWake ==
    /\ lpc = "sleep"
    /\ sleepLeft = 0
    /\ lpc' = "pass"
    /\ UNCHANGED <<lockVars, readVars>>
    /\ UNCHANGED <<fs, requested, recLeft, attemptLeft, sleepLeft, cands, replug, ci, sawAnyPath,
                   lastMissing, lresult, lmount, lsOut, everSaw, everMissing>>

-----------------------------------------------------------------------------
(* The listing: parse_gpod_output and the snapshot of load_library.        *)
(* The text gpod-ls prints is a sequence of tokens:                        *)
(*   "{" "}"  the braces                                                   *)
(*   "k"      a key with its colon,  "k":  (an object follows)             *)
(*   "m"      the member  "ipod_data": <db>  (it stands inside the braces  *)
(*            of the payload in every text of the model)                   *)
(*   "x"      text that holds no brace: a banner, a warning                *)
(* A JSON object is a function from its keys; dict.get is Get.             *)

\* largest number of tokens of a listing text
MaxText == 5
\* largest number of tracks of a playlist
MaxTracks == 2
\* largest number of playlists of a database
MaxPlaylists == 2
\* largest number of load_library calls of a run
MaxReads == 2

EmptyObj == [key \in {} |-> 0]
\* obj.get(key, default)
Get(obj, key, default) == IF key \in DOMAIN obj THEN obj[key] ELSE default
\* obj.get(key) or default, for str values
GetOr(obj, key, default) ==
    IF key \in DOMAIN obj /\ obj[key] # "" THEN obj[key] ELSE default

\* text.find(ch) and text.rfind(ch), counted from 1; 0 when ch is not in text
RECURSIVE FindFrom(_, _, _)
FindFrom(text, ch, i) ==
    IF i > Len(text) THEN 0
    ELSE IF text[i] = ch THEN i
    ELSE FindFrom(text, ch, i + 1)
Find(text, ch) == FindFrom(text, ch, 1)
RECURSIVE RFindFrom(_, _, _)
RFindFrom(text, ch, i) ==
    IF i < 1 THEN 0
    ELSE IF text[i] = ch THEN i
    ELSE RFindFrom(text, ch, i - 1)
RFind(text, ch) == RFindFrom(text, ch, Len(text))

NoBlob == [found |-> FALSE, blob |-> << >>]
\* _extract_json_blob
ExtractJsonBlobToFirstClose(text) ==
    LET start == Find(text, "{")
        end == Find(text, "}")
    IN IF start = 0 \/ end = 0 \/ end < start THEN NoBlob
       ELSE [found |-> TRUE, blob |-> SubSeq(text, start, end)]
ExtractJsonBlob(text) ==
    LET start == Find(text, "{")
        end == RFind(text, "}")
    IN IF start = 0 \/ end = 0 \/ end < start THEN NoBlob
       ELSE [found |-> TRUE, blob |-> SubSeq(text, start, end)]

\* json.loads on the JSON of the model: an object holds no member or one; a member is
\* m, or k with an object.  The parse of a prefix of s: the value and what is left.
NoParse == [ok |-> FALSE, value |-> EmptyObj, rest |-> << >>]
RECURSIVE ParseObject(_, _)
ParseMember(s, payload) ==
    IF s = << >> THEN NoParse
    ELSE IF Head(s) = "m"
         THEN [ok |-> TRUE, value |-> ("ipod_data" :> payload), rest |-> Tail(s)]
    ELSE IF Head(s) = "k"
         THEN LET obj == ParseObject(Tail(s), payload)
              IN IF obj.ok THEN [ok |-> TRUE, value |-> ("k" :> obj.value), rest |-> obj.rest]
                 ELSE NoParse
    ELSE NoParse
ParseObject(s, payload) ==
    IF s = << >> \/ Head(s) # "{" THEN NoParse
    ELSE LET t == Tail(s)
         IN IF t # << >> /\ Head(t) = "}"
            THEN [ok |-> TRUE, value |-> EmptyObj, rest |-> Tail(t)]
            ELSE LET member == ParseMember(t, payload)
                 IN IF member.ok /\ member.rest # << >> /\ Head(member.rest) = "}"
                    THEN [ok |-> TRUE, value |-> member.value, rest |-> Tail(member.rest)]
                    ELSE NoParse
\* json.loads(json_blob): the value, or JSONDecodeError
JsonLoads(blob, payload) ==
    LET obj == ParseObject(blob, payload)
    IN IF obj.ok /\ obj.rest = << >> THEN [ok |-> TRUE, value |-> obj.value]
       ELSE [ok |-> FALSE, value |-> EmptyObj]

NoJsonFound == "No JSON object found in gpod-ls output."
NotJson == "Could not parse JSON output from gpod-ls."
\* parse_gpod_output: the payload, or the message of the GpodError
ParseGpodOutput(stdout, payload) ==
    LET ex == ExtractJsonBlob(stdout)
        loaded == JsonLoads(ex.blob, payload)
    IN IF ~ex.found THEN [error |-> NoJsonFound]
       ELSE IF ~loaded.ok THEN [error |-> NotJson]
       ELSE [value |-> loaded.value]

\* the first playlist with playlist.get(key) == value, from position i on; 0 if none
RECURSIVE FirstFrom(_, _, _, _)
FirstFrom(playlists, key, value, i) ==
    IF i > Len(playlists) THEN 0
    ELSE IF key \in DOMAIN playlists[i] /\ playlists[i][key] = value THEN i
    ELSE FirstFrom(playlists, key, value, i + 1)

\* _find_master_playlist
FindMasterPlaylistOneLoop(playlists) ==
    LET hits == { i \in 1..Len(playlists) :
                    \/ "type" \in DOMAIN playlists[i] /\ playlists[i]["type"] = "master"
                    \/ "name" \in DOMAIN playlists[i] /\ playlists[i]["name"] = "iPod" }
    IN IF hits # {} THEN playlists[CHOOSE i \in hits : \A j \in hits : i <= j]
       ELSE IF playlists # << >> THEN playlists[1]
       ELSE [tracks |-> << >>]
FindMasterPlaylist(playlists) ==
    LET byType == FirstFrom(playlists, "type", "master", 1)
        byName == FirstFrom(playlists, "name", "iPod", 1)
    IN IF byType > 0 THEN playlists[byType]
       ELSE IF byName > 0 THEN playlists[byName]
       ELSE IF playlists # << >> THEN playlists[1]
       ELSE [tracks |-> << >>]

\* _normalize_track.  Durations are in hundredths of a second, and every tracklen of the
\* model is a multiple of 10 ms, so that round(..., 2) changes nothing.  The fields year,
\* playcount, bitrate, size_bytes, ipod_path, artwork and checksum are carried over in
\* the same way as the ones here and are left out.
NormalizeTrack(track) ==
    [id |-> Get(track, "id", "None"),
     title |-> GetOr(track, "title", "Unknown Title"),
     artist |-> GetOr(track, "artist", "Unknown Artist"),
     album |-> GetOr(track, "album", "Unknown Album"),
     genre |-> GetOr(track, "genre", ""),
     duration_seconds |-> Max(Get(track, "tracklen", 0), 0) \div 10]

RECURSIVE Sum(_)
Sum(q) == IF q = << >> THEN 0 ELSE Head(q) + Sum(Tail(q))

\* tracks = master.get("tracks", [])
TracksOfAllPlaylists(playlists) ==
    LET upTo[i \in 0..Len(playlists)] ==
            IF i = 0 THEN << >> ELSE upTo[i - 1] \o Get(playlists[i], "tracks", << >>)
    IN upTo[Len(playlists)]
MasterTracks(playlists) == Get(FindMasterPlaylist(playlists), "tracks", << >>)

\* the "playlists" entry of the snapshot
PlaylistSummary(item) ==
    [name |-> GetOr(item, "name", "Unknown"),
     type |-> GetOr(item, "type", "playlist"),
     count |-> Get(item, "count", 0),
     smartpl |-> Get(item, "smartpl", FALSE)]

\* the "device" entry of the snapshot
DeviceInfo(device) ==
    [generation |-> GetOr(device, "generation", ""),
     model_name |-> GetOr(device, "model_name", ""),
     model_number |-> GetOr(device, "model_number", "")]

NoData == [none |-> TRUE]
NoMaster == [none |-> TRUE]
NoSnapshot == [none |-> TRUE]

\* normalized_tracks = [_normalize_track(track) for track in tracks]: a new list in
\* every call
NormalizedTracksAppended(tracks) ==
    (IF "tracks" \in DOMAIN snapshot THEN snapshot.tracks ELSE << >>)
        \o [i \in 1..Len(tracks) |-> NormalizeTrack(tracks[i])]
NormalizedTracks(tracks) == [i \in 1..Len(tracks) |-> NormalizeTrack(tracks[i])]

\* load_library from parse_gpod_output's result on: the dict it returns
Snapshot(mountpoint, payload, now) ==
    LET ipodData == Get(payload, "ipod_data", EmptyObj)
        playlists == Get(Get(ipodData, "playlists", EmptyObj), "items", << >>)
        tracks == MasterTracks(playlists)
        normalizedTracks == NormalizedTracks(tracks)
        artists == { normalizedTracks[i].artist : i \in 1..Len(tracks) } \ {""}
        albums == { normalizedTracks[i].album : i \in 1..Len(tracks) } \ {""}
    IN [generated_at |-> now,
        mountpoint |-> mountpoint,
        device |-> DeviceInfo(Get(ipodData, "device", EmptyObj)),
        track_count |-> Len(normalizedTracks),
        artist_count |-> Cardinality(artists),
        album_count |-> Cardinality(albums),
        total_duration_seconds |->
            Sum([i \in 1..Len(tracks) |-> normalizedTracks[i].duration_seconds]),
        playlists |-> [i \in 1..Len(playlists) |-> PlaylistSummary(playlists[i])],
        tracks |-> normalizedTracks]

\* ---- the inputs ----

\* the tokens of a text around and inside the payload
TextTokens == {"{", "}", "k", "x"}
Texts == SeqsUpTo(TextTokens, MaxText)
\* the whole payload, bare and between a banner and a trailer
PayloadTexts == { <<"{", "m", "}">>, <<"x", "{", "m", "}", "x">> }

\* tracks as gpod-ls prints them: with all tags, without album tag and title, with an
\* empty artist tag, no other tag and a negative length
Tracks ==
    { [id |-> 1, title |-> "Song", artist |-> "A", album |-> "X", tracklen |-> 1500],
      [id |-> 2, artist |-> "B", tracklen |-> 2500],
      [id |-> 3, artist |-> "", tracklen |-> -1000] }
TrackLists == SeqsUpTo(Tracks, MaxTracks)
\* what the playlists other than one hold
FillLists == { << >>, <<[id |-> 1, title |-> "Song", artist |-> "A", album |-> "X",
                        tracklen |-> 1500],
                       [id |-> 5, artist |-> "C", album |-> "Y", tracklen |-> 500]>> }

\* name and type of a playlist; the last has neither
Heads == { [name |-> "iPod", type |-> "playlist"], [name |-> "Mix", type |-> "master"],
           [name |-> "Mix", type |-> "playlist"], EmptyObj }
\* a playlist item; one without name and tracks has no "tracks" and no "count" either
Playlist(head, tracks) ==
    IF head = EmptyObj /\ tracks = << >> THEN EmptyObj
    ELSE head @@ [tracks |-> tracks, count |-> Len(tracks)]

\* a list of playlists: playlist p holds the tracks rich, the others the tracks fill
PlaylistList(heads, p, rich, fill) ==
    [i \in 1..Len(heads) |-> Playlist(heads[i], IF i = p THEN rich ELSE fill)]

Db(items) == [device |-> [generation |-> "G"], playlists |-> [items |-> items]]
EmptyDb == EmptyObj
\* a few libraries: none, one without playlists, one master playlist with one track,
\* a master playlist behind a playlist named iPod
FewDbs ==
    { EmptyDb, Db(<< >>),
      Db(<<Playlist([name |-> "iPod", type |-> "master"],
                    <<[id |-> 1, title |-> "Song", artist |-> "A", album |-> "X",
                      tracklen |-> 1500]>>)>>),
      Db(<<Playlist([name |-> "iPod", type |-> "playlist"],
                    <<[id |-> 2, artist |-> "B", tracklen |-> 2500]>>),
           Playlist([name |-> "Mix", type |-> "master"],
                    <<[id |-> 3], [id |-> 2, artist |-> "B", tracklen |-> 2500]>>)>>) }

\* the requests: the device roots, the database leaf file of dev1, and the directory
\* above the devices
ReadRequests == { Path(0, <<"ipod">>), Path(1, DevRoot("dev2")), Path(1, DevDb("dev1")),
                  Path(1, <<"media">>) }

\* no load_library call of this kind in the run
ListingOff ==
    /\ readRequest = EmptyRequest
    /\ db = EmptyDb
    /\ lsStdout = << >>
    /\ clock = 0
    /\ data = NoData
    /\ master = NoMaster
    /\ snapshot = NoSnapshot
    /\ mutated = FALSE

\* no call of either kind in the run
ReadOff ==
    /\ ScanOff
    /\ ListingOff

\* the roots the recovery loop can return for a request: the effective mountpoint of
\* any candidate whose probe argument is on disk
ResolvedMountpoints(request) ==
    UNION { LET cs == GpodLsCandidates(request, ord)
            IN { cs[i].eff : i \in { j \in 1..Len(cs) : Exists(cs[j].arg) } }
            : ord \in ScanOrders }

\* load_library, in one step, in a run of the recovery loop that ends with a listing
\* (exit 0) of some candidate: the payload is parsed and the snapshot built from it
\* alone, or GpodError is raised for a text without a JSON object.
ReadLibrary ==
    /\ clock < MaxReads
    /\ \E resolved \in ResolvedMountpoints(readRequest) :
         LET parsed == ParseGpodOutput(lsStdout, db)
             playlists == Get(Get(Get(parsed.value, "ipod_data", EmptyObj),
                                  "playlists", EmptyObj), "items", << >>)
         IN IF "error" \in DOMAIN parsed
            THEN /\ data' = NoData
                 /\ master' = NoMaster
                 /\ snapshot' = parsed
            ELSE /\ data' = parsed.value
                 /\ master' = FindMasterPlaylist(playlists)
                 /\ snapshot' = Snapshot(resolved, parsed.value, clock + 1)
    /\ clock' = clock + 1
    /\ mutated' = FALSE
    /\ UNCHANGED <<readRequest, db, lsStdout>>
    /\ UNCHANGED <<lockVars, loadVars, scanVars>>

\* the library after one track has been removed from playlist i
WithoutFirstTrack(library, i) ==
    LET items == library.playlists.items
    IN Db([items EXCEPT ![i] = [@ EXCEPT !.tracks = Tail(@), !.count = @ - 1]])

\* Between two reads a write call changes the database: a track is deleted.
Mutate ==
    /\ snapshot # NoSnapshot
    /\ clock < MaxReads
    /\ ~mutated
    /\ db # EmptyDb
    /\ \E i \in 1..Len(db.playlists.items) :
         /\ Get(db.playlists.items[i], "tracks", << >>) # << >>
         /\ db' = WithoutFirstTrack(db, i)
    /\ mutated' = TRUE
    /\ UNCHANGED <<readRequest, lsStdout, clock, data, master, snapshot>>
    /\ UNCHANGED <<lockVars, loadVars, scanVars>>

\* load_library alone, from the listing on: a text of any tokens around an empty
\* library, or the payload of any library, each read once; or a few libraries asked
\* for by any request and read MaxReads times.  Both devices are mounted and readable.
ListingInit ==
    /\ fcntlAvailable = TRUE
    /\ InitOps("off")
    /\ InitLoad("off")
    /\ replug = NotRecorded
    /\ ScanOff
    /\ fs = [d \in Devices |-> "ready"]
    /\ data = NoData
    /\ master = NoMaster
    /\ snapshot = NoSnapshot
    /\ mutated = FALSE
    /\ \/ /\ lsStdout \in Texts
          /\ db = EmptyDb
          /\ readRequest = Path(0, <<"ipod">>)
          /\ clock = MaxReads - 1
       \/ /\ lsStdout = <<"{", "m", "}">>
          /\ \E n \in 1..MaxPlaylists :
               \E heads \in [1..n -> Heads], p \in 1..n, rich \in TrackLists,
                  fill \in FillLists :
                   db = Db(PlaylistList(heads, p, rich, fill))
          /\ readRequest = Path(0, <<"ipod">>)
          /\ clock = MaxReads - 1
       \/ /\ lsStdout \in PayloadTexts
          /\ db \in FewDbs
          /\ readRequest \in ReadRequests
          /\ clock = 0

ListingNext ==
    \/ ReadLibrary
    \/ Mutate

ListingSpec == ListingInit /\ [][ListingNext]_vars

-----------------------------------------------------------------------------
(* The system.  A run is either of concurrent add_tracks / delete_tracks  *)
(* calls, or of one load_library call over a changing filesystem.         *)

WriteInit ==
    /\ fcntlAvailable \in BOOLEAN
    /\ InitOps("idle")
    /\ InitLoad("off")
    /\ replug = NotRecorded
    /\ fs = [d \in Devices |-> "absent"]
    /\ ReadOff

LoadInit ==
    /\ fcntlAvailable = TRUE
    /\ InitOps("off")
    /\ InitLoad("idle")
    /\ replug = NotRecorded
    /\ fs \in [Devices -> {"absent", "empty", "ready"}]
    /\ \A d \in Devices : fs[d] \in DevStates(d)
    /\ ReadOff

\* one load_library call, with the record of the roots that are new in a pass
ReplugInit ==
    /\ fcntlAvailable = TRUE
    /\ InitOps("off")
    /\ InitLoad("idle")
    /\ replug = [ready |-> {}, new |-> {}]
    /\ fs \in [Devices -> {"absent", "empty", "ready"}]
    /\ \A d \in Devices : fs[d] \in DevStates(d)
    /\ ReadOff

Init == WriteInit \/ LoadInit

\* One add_tracks / delete_tracks call made on its own, with any arguments: ffmpeg and
\* ffprobe are installed or not, and another process may hold the lock file throughout.
CallInit ==
    /\ fcntlAvailable \in BOOLEAN
    /\ ffmpegInstalled \in BOOLEAN
    /\ flocks \in { {}, {<<LockPath(Cwd1, Path(0, <<"ipod">>)), Foreign>>} }
    /\ pc = [o \in Ops |-> IF o = 1 THEN "idle" ELSE "off"]
    /\ InitLocals
    /\ InitLoad("off")
    /\ replug = NotRecorded
    /\ fs = [d \in Devices |-> "absent"]
    /\ ReadOff

LoadStep ==
    \/ LoadStart
    \/ PassStart
    \/ Probe
    \/ LsExit
    \/ LsTimeout
    \/ PassEnd
    \/ LoadWake

Next ==
    \/ Tick
    \/ \E o \in Ops : OpStep(o)
    \/ LoadStep
    \/ \E d \in Devices : FsChange(d)

Spec == Init /\ [][Next]_vars

\* A thread that can take its next step takes it, time passes, and a subprocess that has
\* reached its timeout is killed; a tool need not end by itself and no call need be made.
OpProgress(o) ==
    \/ Convert(o)
    \/ EnterLock(o)
    \/ Poll(o)
    \/ Wake(o)
    \/ Exec(o)
    \/ ToolTimeout(o)
    \/ Release(o)

LoadProgress ==
    \/ PassStart
    \/ Probe
    \/ LsTimeout
    \/ PassEnd
    \/ LoadWake

\* the write calls alone: concurrent add_tracks and delete_tracks calls
WriteNext ==
    \/ Tick
    \/ \E o \in Ops : OpStep(o)

WriteProgress ==
    \/ Tick
    \/ \E o \in Ops : OpProgress(o)

\* one scan of a filesystem that stays as it is, with any of the three devices mounted
ScanInit ==
    /\ fcntlAvailable = TRUE
    /\ InitOps("off")
    /\ InitLoad("off")
    /\ replug = NotRecorded
    /\ ListingOff
    /\ fs \in [ScanDevices -> {"absent", "empty", "ready"}]
    /\ \A d \in ScanDevices : fs[d] \in DevStates(d)
    /\ scanPc = "idle"
    /\ scanBase = EmptyRequest
    /\ scanOrd = << >>
    /\ scanStack = << >>
    /\ scanRoots = << >>
    /\ scanVisited = {}
    /\ scanErr = FALSE

ScanNext ==
    \/ ScanStart
    \/ ScanStep
    \/ ScanReturn

\* the call is not suspended for ever
ScanSpec == ScanInit /\ [][ScanNext]_vars /\ WF_vars(ScanNext)

\* the read call alone
LoadNext ==
    \/ Tick
    \/ LoadStep
    \/ \E d \in Devices : FsChange(d)

ReplugSpec == ReplugInit /\ [][LoadNext]_vars

\* A read beside a write: load_library is called while one add_tracks / delete_tracks
\* call is made or under way (the call of the other thread has been rejected for its
\* empty mountpoint), and another process holds the write lock of /media/ipod, the
\* device that is mounted, throughout, and may hold that of the writer's mountpoint.
RaceInit ==
    /\ fcntlAvailable = TRUE
    /\ ffmpegInstalled = TRUE
    /\ \E held \in SUBSET {LockPath(Cwd1, Path(0, <<"ipod">>))} :
          flocks = { <<f, Foreign>> : f \in held \cup {LockPath(LoadCwd, Path(0, <<"ipod">>))} }
    /\ pc = [o \in Ops |-> IF o = 1 THEN "idle" ELSE "done"]
    /\ inputs = [o \in Ops |-> << >>]
    /\ targets = [o \in Ops |-> << >>]
    /\ convertToAlac = [o \in Ops |-> FALSE]
    /\ convAt = [o \in Ops |-> 0]
    /\ convertedMap = [o \in Ops |-> {}]
    /\ convertedCount = [o \in Ops |-> 0]
    /\ conversionFailures = [o \in Ops |-> << >>]
    /\ scratchFiles = [o \in Ops |-> {}]
    /\ toolStdout = [o \in Ops |-> << >>]
    /\ toolStderr = [o \in Ops |-> << >>]
    /\ summary = [o \in Ops |-> NoSummary]
    /\ detail = [o \in Ops |-> NoDetail]
    /\ attempted = [o \in Ops |-> {}]
    /\ launches = [o \in Ops |-> << >>]
    /\ kind = [o \in Ops |-> "none"]
    /\ caller = [o \in Ops |-> NoCaller]
    /\ fd = [o \in Ops |-> NoFile]
    /\ lockLeft = [o \in Ops |-> 0]
    /\ napLeft = [o \in Ops |-> 0]
    /\ toolLeft = [o \in Ops |-> 0]
    /\ tool = [o \in Ops |-> "idle"]
    /\ attempt = [o \in Ops |-> "batch"]
    /\ nTargets = [o \in Ops |-> 0]
    /\ idx = [o \in Ops |-> 0]
    /\ mergedRc = [o \in Ops |-> 0]
    /\ exc = [o \in Ops |-> "none"]
    /\ scratch = [o \in Ops |-> FALSE]
    /\ spawned = [o \in Ops |-> FALSE]
    /\ result = [o \in Ops |-> IF o = 1 THEN "none" ELSE "Mountpoint cannot be empty."]
    /\ InitLoad("idle")
    /\ replug = NotRecorded
    /\ fs = [d \in Devices |-> IF d = "dev1" THEN "ready" ELSE "absent"]
    /\ ReadOff

\* the device stays as it is
RaceNext ==
    \/ Tick
    \/ \E o \in Ops : OpStep(o)
    \/ LoadStep

RaceSpec == RaceInit /\ [][RaceNext]_vars

\* one call in detail
CallSpec == CallInit /\ [][WriteNext]_vars

WriteFairSpec == WriteInit /\ [][WriteNext]_vars /\ WF_vars(WriteProgress)

Progress ==
    \/ WriteProgress
    \/ LoadProgress

FairSpec == Spec /\ WF_vars(Progress)

-----------------------------------------------------------------------------
(* Properties *)

LockTimeoutMsg == "Timed out waiting for iTunesDB write lock."
MissingYet == "gpod-ls could not find a readable iTunesDB yet"
NotReadableYet == "Mountpoint is present but iTunesDB is not readable yet"
BecameUnavailable == "Mountpoint became unavailable"

\* the operation is inside the body of the with-block of _itunesdb_write_lock, or is
\* leaving it with the finally block still to run
Holding(o) ==
    \/ pc[o] \in {"exec", "wait"}
    \/ pc[o] = "release" /\ exc[o] # "LockTimeout"

HoldsFlock(o) == <<LockFileOf(o), o>> \in flocks

\* C1: with fcntl available, two operations whose mountpoints normalise to the same
\* absolute path are never both inside the write lock, whatever the spelling and the
\* working directory of each caller.
C1_MutualExclusion ==
    fcntlAvailable =>
        \A o1, o2 \in Ops :
            (o1 # o2 /\ Holding(o1) /\ Holding(o2)) => NormOf(o1) # NormOf(o2)

\* One operation is inside the lock while another, called with a different spelling of
\* the same path, has polled and found the lock taken.
C1_Witness ==
    /\ fcntlAvailable
    /\ \E o1, o2 \in Ops :
         /\ o1 # o2
         /\ Holding(o1)
         /\ pc[o2] = "nap"
         /\ caller[o1].mp # caller[o2].mp
         /\ NormOf(o1) = NormOf(o2)

\* C2 as stated: a gpod-cp / gpod-rm process runs only while its operation holds the
\* write lock of the mountpoint.
C2_ToolOnlyUnderLock ==
    \A o \in Ops : tool[o] = "running" => HoldsFlock(o)

\* C2, amended: with fcntl available, every gpod-cp / gpod-rm launch (the batch and each
\* per-target launch of the fallback) and every running tool process belongs to an
\* operation that holds the lock of its mountpoint.
C2_ToolOnlyUnderLockWithFcntl ==
    fcntlAvailable =>
        \A o \in Ops : (tool[o] = "running" \/ pc[o] = "exec") => HoldsFlock(o)

\* The second per-target gpod-rm of a fallback runs while another operation waits for
\* the same lock.
C2_Witness ==
    /\ fcntlAvailable
    /\ \E o1, o2 \in Ops :
         /\ o1 # o2
         /\ tool[o1] = "running" /\ attempt[o1] = "fallback" /\ idx[o1] = 2
         /\ pc[o2] = "nap" /\ fd[o2] = LockFileOf(o1)

\* C3: outside the with-block (before it, between the batch and the fallback, after the
\* call has ended in any way) the operation holds no lock and has no descriptor open.
C3_LockReleasedOnEveryExit ==
    \A o \in Ops :
        pc[o] \in {"off", "idle", "convert", "enter_lock", "done"} =>
            /\ fd[o] = NoFile
            /\ \A e \in flocks : e[2] # o

\* Both calls have ended, one by the lock timeout and one by the tool timeout.
C3_Witness ==
    /\ fcntlAvailable
    /\ \E o1, o2 \in Ops :
         /\ pc[o1] = "done" /\ result[o1] = LockTimeoutMsg
         /\ pc[o2] = "done" /\ result[o2] = "Timed out"

\* C4: a poll that finds the lock free acquires it; one that finds it taken sleeps and
\* polls again while the deadline has not passed and raises the lock timeout once it has;
\* the call then ends with that GpodError, no tool process of it has ever run; and a
\* waiting operation always comes to acquire the lock or to time out.
C4_PollUntilDeadline ==
    /\ [](\A o \in Ops :
            (exc[o] = "LockTimeout" \/ result[o] = LockTimeoutMsg) =>
                /\ ~spawned[o]
                /\ tool[o] = "idle"
                /\ LockTimeoutMsg \in GpodErrors)
    /\ [][\A o \in Ops :
            (pc[o] = "poll" /\ pc'[o] # "poll") =>
                /\ ~Locked(fd[o]) => (pc'[o] = "exec" /\ <<fd[o], o>> \in flocks')
                /\ (Locked(fd[o]) /\ lockLeft[o] > 0) =>
                       (pc'[o] = "nap" /\ napLeft'[o] = NapTicks)
                /\ (Locked(fd[o]) /\ lockLeft[o] = 0) =>
                       (pc'[o] = "release" /\ exc'[o] = "LockTimeout")]_vars
    /\ [][\A o \in Ops :
            (exc[o] = "LockTimeout" /\ pc'[o] # pc[o]) =>
                (pc'[o] = "done" /\ result'[o] = LockTimeoutMsg)]_vars
    /\ \A o \in Ops :
            (pc[o] \in {"poll", "nap"}) ~> (pc[o] = "exec" \/ exc[o] = "LockTimeout")

\* One call has ended with the lock timeout while the tool of the holder, which has
\* reached its own timeout, is still running.
C4_Witness ==
    \E o1, o2 \in Ops :
        /\ pc[o1] = "done" /\ result[o1] = LockTimeoutMsg
        /\ pc[o2] = "wait" /\ toolLeft[o2] = 0

IsMissing(out) == out.rc > 0 /\ LooksLikeMissingItunesdb(Message(out))
IsHard(out) == out.rc > 0 /\ ~LooksLikeMissingItunesdb(Message(out))
IsListing(out) == out.rc = 0 /\ out.stdout = "json"

\* C5: a missing-database result moves the loop on to the next candidate of the same
\* pass, and a candidate that lists with exit 0 makes load_library succeed with that
\* candidate's effective root.
C5_MissingDoesNotStopPass ==
    [][(lpc = "ls" /\ lpc' # "ls") =>
          /\ IsMissing(lsOut') =>
                (lpc' = "cand" /\ ci' = ci + 1 /\ cands' = cands /\ recLeft' = recLeft)
          /\ IsListing(lsOut') =>
                (lpc' = "done" /\ lresult'.kind = "ok" /\ lmount' = cands[ci].eff)]_vars

\* The requested path answered "no database", a discovered root listed: the call has
\* succeeded with the discovered root.
C5_Witness ==
    /\ lpc = "done"
    /\ lresult.kind = "ok"
    /\ lastMissing # NoResult
    /\ lastMissing.eff = Abspath(LoadCwd, requested)
    /\ lmount # Abspath(LoadCwd, requested)

\* C6: gpod-ls is launched only on the candidate the loop stands at and only when its
\* probe argument is on disk at that moment, and every result of the loop (the
\* remembered missing-database result, the returned root, a returned failure) comes
\* from such a launch.
C6_ProbedOnlyIfOnDisk ==
    [][/\ (lpc # "ls" /\ lpc' = "ls") =>
             (ci \in 1..Len(cands) /\ Exists(cands[ci].arg) /\ ci' = ci /\ cands' = cands)
       /\ (lastMissing' # lastMissing /\ lastMissing' # NoResult) =>
             (lpc = "ls" /\ lastMissing'.eff = cands[ci].eff)
       /\ lmount' # lmount => (lpc = "ls" /\ lmount' = cands[ci].eff)
       /\ (lpc # "done" /\ lpc' = "done"
             /\ lresult'.kind \in {"ok", "gpod-ls failed", "Could not parse JSON output from gpod-ls."})
             => lpc = "ls"]_vars

\* gpod-ls runs on a later candidate after an earlier one of the pass was not on disk.
C6_Witness ==
    /\ lpc = "ls"
    /\ ci > 1
    /\ \E j \in 1..(ci - 1) : ~Exists(cands[j].arg)

\* C7: once a probe has ended with a failure that is not a missing-database message,
\* the call is over: load_library has raised "gpod-ls failed" with the tool's message
\* (stderr, else stdout, else the generic text), with no further probe, pass or sleep.
C7_HardFailureReturnsAtOnce ==
    IsHard(lsOut) =>
        /\ lpc = "done"
        /\ lresult = Ret("gpod-ls failed", Message(lsOut))
        /\ sleepLeft = 0

\* A hard failure, reported on stdout, came before the deadline with candidates left.
C7_Witness ==
    /\ IsHard(lsOut)
    /\ lsOut.stderr = "" /\ lsOut.stdout = HardMsg
    /\ ci < Len(cands)
    /\ recLeft > 0

\* C8 as stated: when the loop has ended on the deadline and a missing-database result
\* was captured at any point of the loop, the call reports the missing database.
DeadlineEnds == {MissingYet, NotReadableYet, BecameUnavailable, "Timed out reading iTunesDB"}
C8_AnyCapturedMissingIsReported ==
    (lpc = "done" /\ lresult.kind \in DeadlineEnds /\ everMissing) => lresult.kind = MissingYet

\* C8, amended: when the loop ends at the deadline check that follows a pass, it reports
\* the missing database exactly when a missing-database result was captured during
\* that final pass; the timeout error is the outcome exactly of an attempt that ran into
\* its timeout with the deadline passed, whatever was captured before.
C8_FinalPassMissingIsReported ==
    /\ (lpc = "done" /\ lresult.kind \in {MissingYet, NotReadableYet, BecameUnavailable}) =>
          (lresult.kind = MissingYet <=> lastMissing # NoResult)
    /\ (lpc = "done" /\ lresult.kind = "Timed out reading iTunesDB") =>
          (lsOut = TimedOut /\ recLeft = 0)

\* The final pass captured a missing-database result and then saw an attempt time out
\* before the deadline; the call has reported the missing database.
C8_Witness ==
    /\ lpc = "done"
    /\ lresult.kind = MissingYet
    /\ lsOut = TimedOut

\* C9 as stated: when no result was captured at any point of the loop, of the two errors
\* the loop raises itself "became unavailable" is the one raised exactly when no probe
\* argument was seen on disk during the loop.
C9_UnavailableIffNeverSeen ==
    (lpc = "done" /\ lresult.kind \in {NotReadableYet, BecameUnavailable} /\ ~everMissing) =>
        (lresult.kind = BecameUnavailable <=> ~everSaw)

\* C9, amended: when the deadline has passed at the end of a pass that captured no
\* result, the loop raises "became unavailable" exactly when no probe argument was seen
\* on disk during that final pass, and "not readable yet" exactly when one was.
C9_UnavailableIffNotSeenInFinalPass ==
    /\ []((lpc = "done" /\ lresult.kind \in {NotReadableYet, BecameUnavailable}) =>
            /\ lastMissing = NoResult
            /\ lresult.kind = BecameUnavailable <=> ~sawAnyPath)
    /\ [][(lpc = "cand" /\ ci > Len(cands) /\ recLeft = 0 /\ lastMissing = NoResult
             /\ lpc' # lpc) =>
            /\ lpc' = "done"
            /\ lresult'.kind = IF sawAnyPath THEN NotReadableYet ELSE BecameUnavailable]_vars

\* A path was seen in an earlier pass, none in the final one: "became unavailable".
C9_Witness ==
    /\ lpc = "done"
    /\ lresult.kind = BecameUnavailable
    /\ everSaw

\* some call of load_library, add_tracks or delete_tracks has begun and not ended
InProgress ==
    \/ lpc \in {"pass", "cand", "ls", "sleep"}
    \/ \E o \in Ops : pc[o] \notin {"off", "idle", "done"}

-----------------------------------------------------------------------------
(* One call in detail: conversions, commands, results.                      *)

\* the sources of an add that end in the convertible extension
Convertible(o) == { targets[o][i] : i \in { j \in 1..Len(targets[o]) : EndsWithFlac(targets[o][j]) } }
\* the sources whose conversion failed, and those whose conversion succeeded
FailedSources(o) == { src \in Range(targets[o]) : <<src, FALSE>> \in attempted[o] }
ConvertedSources(o) == { src \in Range(targets[o]) : <<src, TRUE>> \in attempted[o] }
IsAddSummary(o) == "converted_count" \in DOMAIN summary[o]

C12_CopyOnceAfterAllConversions ==
    \A o \in Ops : (kind[o] = "add" /\ launches[o] # << >>) =>
        /\ convertToAlac[o] => Convertible(o) \subseteq { a[1] : a \in attempted[o] }
        /\ Len(launches[o]) = 1
        /\ launches[o][1].tool = "gpod-cp"
        /\ Len(launches[o][1].args) = Len(targets[o])
        /\ \A i \in 1..Len(targets[o]) :
             launches[o][1].args[i] \in {targets[o][i], Dst(o, targets[o][i], i - 1)}

\* gpod-cp runs for two sources, the first of which failed to convert while the second
\* was converted.
C12_Witness ==
    \E o \in Ops :
        /\ kind[o] = "add"
        /\ pc[o] = "wait"
        /\ Len(targets[o]) = 2
        /\ targets[o][1] \in FailedSources(o)
        /\ targets[o][2] \in ConvertedSources(o)
        /\ launches[o][1].args = <<targets[o][1], Dst(o, targets[o][2], 1)>>

\* C13: an add with conversion enabled that reaches a FLAC source while ffmpeg or
\* ffprobe is not installed ends by raising a GpodError.
C13_AddRaisesWithoutFfmpeg ==
    [][\A o \in Ops :
          (kind[o] = "add" /\ convertToAlac[o] /\ ~ffmpegInstalled
             /\ Convertible(o) # {} /\ pc'[o] = "done")
          => result'[o] \in GpodErrors]_vars

\* C14: an add whose batched gpod-cp command failed with E2BIG goes on to per-file
\* commands instead of ending, so that the too-many-arguments error is raised to the
\* caller from the per-file fallback only.
C14_AddFallsBackPerFile ==
    [][\A o \in Ops : kind[o] = "add" =>
          /\ (attempt[o] = "batch" /\ exc[o] = "E2BIG") => pc'[o] # "done"
          /\ (pc'[o] = "done" /\ result'[o] = "Too many arguments")
                => attempt[o] = "fallback"]_vars

\* the commands of the per-target fallback of a delete: those after the batch
Fallback(o) == SubSeq(launches[o], 2, Len(launches[o]))

\* C15: in the fallback of a delete, which follows a batched gpod-rm command that
\* failed with E2BIG, command j is gpod-rm for target j alone; a command is launched
\* only after every earlier one has exited with 0; the merged return code is nonzero
\* exactly if some command exited nonzero; and a fallback that ends with no error has
\* launched one command for each target.
C15_DeleteFallbackPerTarget ==
    \A o \in Ops : (kind[o] = "delete" /\ attempt[o] = "fallback") =>
        /\ launches[o][1].args = targets[o]
        /\ launches[o][1].end = "E2BIG"
        /\ Len(Fallback(o)) <= Len(targets[o])
        /\ \A j \in 1..Len(Fallback(o)) :
             /\ Fallback(o)[j].tool = "gpod-rm"
             /\ Fallback(o)[j].args = <<targets[o][j]>>
             /\ j < Len(Fallback(o)) => (Fallback(o)[j].end = "exit" /\ Fallback(o)[j].rc = 0)
        /\ mergedRc[o] # 0 <=>
             \E j \in 1..Len(Fallback(o)) :
                 Fallback(o)[j].end = "exit" /\ Fallback(o)[j].rc # 0
        /\ (pc[o] = "release" /\ exc[o] = "none" /\ mergedRc[o] = 0)
              => Len(Fallback(o)) = Len(targets[o])

\* The fallback of a delete of two targets ends: the first command exited with 0, the
\* second with 1, and the merged return code is 1.
C15_Witness ==
    \E o \in Ops :
        /\ kind[o] = "delete"
        /\ attempt[o] = "fallback"
        /\ pc[o] = "release"
        /\ Len(targets[o]) = 2
        /\ Len(Fallback(o)) = 2
        /\ Fallback(o)[1].rc = 0
        /\ Fallback(o)[2].rc = 1
        /\ mergedRc[o] = 1

\* C16: once an add_tracks call has ended, by returning or by raising, its scratch
\* directory does not exist and no converted file of the call is left.
C16_ScratchRemovedOnEveryExit ==
    /\ [](\A o \in Ops : pc[o] = "done" => (~scratch[o] /\ scratchFiles[o] = {}))
    /\ [][\A o \in Ops :
             (kind[o] = "add" /\ scratchFiles[o] # {} /\ pc'[o] = "done"
                /\ result'[o] \in GpodErrors)
             => (~scratch'[o] /\ scratchFiles'[o] = {})]_vars
    /\ [](\A o \in Ops : scratchFiles[o] # {} => scratch[o])

\* An add has returned after it had converted a source, and the scratch directory that
\* held the converted file is gone.
C16_Witness ==
    \E o \in Ops :
        /\ pc[o] = "done"
        /\ IsAddSummary(o)
        /\ summary[o].converted_count >= 1
        /\ ~scratch[o]
        /\ scratchFiles[o] = {}

-----------------------------------------------------------------------------
(* The targets of a delete.  The properties below are stated on the state   *)
(* in which delete_tracks has read ipod_paths and built its command.        *)

\* delete_tracks holds its argument and the command made from it
DeleteRead(o) ==
    /\ kind[o] = "delete"
    /\ pc[o] = "enter_lock"
    /\ attempt[o] = "batch"
    /\ inputs[o] # << >>
\* the targets of the gpod-rm command
RmArgs(o) == Command(o).args

RemoveAt(s, i) == SubSeq(s, 1, i - 1) \o SubSeq(s, i + 1, Len(s))
\* a token is none of the caller's business to delete: not a str, blank, or with a
\* ".." segment between its slashes or backslashes
IsBlank(raw) == raw.isStr /\ \A i \in 1..Len(raw.chars) : raw.chars[i] \in Whitespace
HasDotDotSegment(raw) ==
    /\ raw.isStr
    /\ \E i \in 1..Len(Split(ReplaceBackslashes(Strip(raw.chars)))) :
          Split(ReplaceBackslashes(Strip(raw.chars)))[i] = <<".", ".">>
\* a target, as a path string: an id has no slash
IsId(t) == t.lead = 0
\* the string is empty or of whitespace only
IsBlankTarget(t) == t.lead = 0 /\ \A i \in 1..Len(t.parts) : t.parts[i] \in {"", " ", "\n"}
\* the root directory: slashes and nothing else
IsRoot(t) == t.lead >= 1 /\ t.parts = << >>

\* C17: no target of a delete command is empty or blank, is the root, or has a ".."
\* segment; an input that is not a str, is blank, or has a ".." segment is dropped: the
\* targets are those of the list without it.
C17_NoBlankRootOrDotDotTarget ==
    \A o \in Ops : DeleteRead(o) =>
        /\ \A j \in 1..Len(RmArgs(o)) :
             /\ ~IsBlankTarget(RmArgs(o)[j])
             /\ ~IsRoot(RmArgs(o)[j])
             /\ \A i \in 1..Len(RmArgs(o)[j].parts) : RmArgs(o)[j].parts[i] # ".."
        /\ \A i \in 1..Len(inputs[o]) :
             (~inputs[o][i].isStr \/ IsBlank(inputs[o][i]) \/ HasDotDotSegment(inputs[o][i]))
             => RmArgs(o) = NormalizeRmTargets(RemoveAt(inputs[o], i))

\* C18: every numeric token of the input is a target of the delete command as it
\* stands, and every other target is a path that begins with exactly one slash.
C18_IdsUnchangedPathsSingleSlash ==
    \A o \in Ops : DeleteRead(o) =>
        /\ \A i \in 1..Len(inputs[o]) :
             (inputs[o][i].isStr /\ IsDigit(inputs[o][i].chars))
             => \E j \in 1..Len(RmArgs(o)) :
                   RmArgs(o)[j] = Path(0, <<Cat(inputs[o][i].chars)>>)
        /\ \A j \in 1..Len(RmArgs(o)) : IsId(RmArgs(o)[j]) \/ RmArgs(o)[j].lead = 1

\* two path strings name the same target: the same id, or the same components below
\* the root
SameTarget(a, b) == a.parts = b.parts /\ IsId(a) = IsId(b)
\* the position in the input of the first token that gives the target
FirstOccurrence(o, t) ==
    CHOOSE i \in 1..Len(inputs[o]) :
        /\ RmTargetOf(inputs[o][i]) = {t}
        /\ \A k \in 1..(i - 1) : RmTargetOf(inputs[o][k]) # {t}

\* C19: no target is in the delete command twice, the targets stand in the order in
\* which the input first names them, and requested_count is their number.
C19_TargetsOnceInInputOrder ==
    \A o \in Ops : DeleteRead(o) =>
        /\ \A i, j \in 1..Len(RmArgs(o)) : i < j =>
             /\ ~SameTarget(RmArgs(o)[i], RmArgs(o)[j])
             /\ FirstOccurrence(o, RmArgs(o)[i]) < FirstOccurrence(o, RmArgs(o)[j])
        /\ nTargets[o] = Len(RmArgs(o))

-----------------------------------------------------------------------------
(* The error of a tool that exits nonzero.                                  *)

\* the call ends on the nonzero return code of its CompletedProcess
EndsOnNonzero(o) ==
    /\ pc[o] = "release"
    /\ exc[o] = "none"
    /\ mergedRc[o] # 0
    /\ pc'[o] = "done"
\* some command of the call has exited nonzero
SomeNonzeroExit(o) ==
    \E j \in 1..Len(launches[o]) : launches[o][j].end = "exit" /\ launches[o][j].rc # 0

\* C20 as claimed: a call whose tool exited nonzero raises GpodError, never returns,
\* and the message is taken from stderr whenever stderr is not empty, else from stdout
\* when that is not empty, else it is the generic message.
C20_DiagnosticFromNonEmptyStderr ==
    [][\A o \in Ops :
          /\ (SomeNonzeroExit(o) /\ pc'[o] = "done") =>
                (result'[o] = "tool failed" /\ summary'[o] = NoSummary)
          /\ EndsOnNonzero(o) =>
                detail'[o] = IF toolStderr[o] # << >> THEN Strip(toolStderr[o])
                             ELSE IF toolStdout[o] # << >> THEN Strip(toolStdout[o])
                             ELSE <<"Unknown error.">>]_vars

\* C20, amended: a call whose tool exited nonzero raises GpodError, never returns, and
\* the message is taken from stderr when stderr is not blank (holds more than
\* whitespace), else from stdout when that is not blank, else it is the generic message.
C20_DiagnosticFromNonBlankStderr ==
    [][\A o \in Ops :
          /\ (SomeNonzeroExit(o) /\ pc'[o] = "done") =>
                (result'[o] = "tool failed" /\ result'[o] \in GpodErrors
                   /\ summary'[o] = NoSummary)
          /\ EndsOnNonzero(o) =>
                /\ SomeNonzeroExit(o)
                /\ detail'[o] =
                      IF \E i \in 1..Len(toolStderr[o]) : toolStderr[o][i] \notin Whitespace
                      THEN Strip(toolStderr[o])
                      ELSE IF \E i \in 1..Len(toolStdout[o]) :
                                 toolStdout[o][i] \notin Whitespace
                           THEN Strip(toolStdout[o])
                           ELSE <<"Unknown error.">>]_vars

\* A call has raised the error of a tool that exited nonzero, with the message taken
\* from stdout.
C20_Witness ==
    \E o \in Ops :
        /\ pc[o] = "done"
        /\ result[o] = "tool failed"
        /\ detail[o] = <<"out">>

-----------------------------------------------------------------------------
(* One call of any of the three operations, made on its own.               *)

\* add_tracks or delete_tracks with any arguments, or load_library over a changing
\* filesystem
AnyCallSpec == (CallInit \/ LoadInit) /\ [][Next]_vars

\* the errors of the checks at the head of add_tracks and delete_tracks
Rejections == {"Mountpoint cannot be empty.", "Mountpoint does not exist", "No valid input"}

\* C21: add_tracks and delete_tracks refuse an empty mountpoint, a mountpoint that is
\* not on disk and an argument list of which normalization leaves nothing, each with
\* its GpodError and in the first step of the call: no lock file is opened, no lock
\* taken, no conversion tried and no tool launched; a call that gets past the checks
\* has a mountpoint and at least one normalized file or target.  load_library refuses
\* the empty mountpoint before it generates a candidate or probes one.
C21_RejectedBeforeLockAndTools ==
    /\ [](\A c \in Callers \cup {EmptyMount}, exists \in BOOLEAN, n \in 0..MaxTargets :
             (c = EmptyMount \/ ~exists \/ n = 0) <=> Validate(c, exists, n) \in Rejections)
    /\ [](\A o \in Ops : result[o] \in Rejections =>
             /\ pc[o] = "done"
             /\ ~spawned[o]
             /\ fd[o] = NoFile
             /\ \A f \in {LockPath(c.cwd, c.mp) : c \in Callers} : <<f, o>> \notin flocks)
    /\ [](lresult.kind = "Mountpoint cannot be empty." =>
             (lpc = "done" /\ cands = << >> /\ lsOut = NoOut /\ ~everSaw))
    /\ [][/\ \A o \in Ops : (pc[o] = "idle" /\ pc'[o] # "idle") =>
               IF pc'[o] = "done"
               THEN /\ result'[o] \in Rejections
                    /\ flocks' = flocks
                    /\ launches'[o] = << >>
                    /\ attempted'[o] = {}
                    /\ scratchFiles'[o] = {}
                    /\ result'[o] = "No valid input" =>
                          \E c \in CallersOf(o) :
                              \/ NormalizeLocalPaths(c.cwd, inputs'[o]) = << >>
                              \/ NormalizeRmTargets(inputs'[o]) = << >>
               ELSE /\ result'[o] \notin Rejections
                    /\ caller'[o] \in CallersOf(o)
                    /\ targets'[o] # << >>
          /\ (lpc = "idle" /\ lpc' # "idle") =>
               IF lpc' = "done"
               THEN lresult' = Ret("Mountpoint cannot be empty.", "") /\ requested' = EmptyRequest
               ELSE lpc' = "pass" /\ requested' # EmptyRequest /\ lresult' = NoRet]_vars

\* A list of entries none of which is a valid target or file was refused.
C21_Witness ==
    /\ pc[1] = "done"
    /\ result[1] = "No valid input"
    /\ Len(inputs[1]) = MaxTargets
    /\ ~spawned[1]

-----------------------------------------------------------------------------
(* The snapshot of load_library.                                           *)

\* the call returned a snapshot
Returned(s) == "track_count" \in DOMAIN s
\* playlists of load_library: the items of the parsed payload
PlaylistsOf(payload) ==
    Get(Get(Get(payload, "ipod_data", EmptyObj), "playlists", EmptyObj), "items", << >>)
\* the request names a device root with a readable database
IsDeviceRoot(request) == HasItunesdbUnderRoot(Abspath(LoadCwd, request))

C23_CountsFromMasterPlaylistOnly ==
    (Returned(snapshot) /\ master # NoMaster) =>
        LET tracks == Get(master, "tracks", << >>)
            names(field) == { NormalizeTrack(tracks[i])[field] : i \in 1..Len(tracks) } \ {""}
            items == PlaylistsOf(data)
        IN /\ snapshot.track_count = Len(tracks)
           /\ snapshot.artist_count = Cardinality(names("artist"))
           /\ snapshot.album_count = Cardinality(names("album"))
           /\ snapshot.total_duration_seconds =
                  Sum([i \in 1..Len(tracks) |-> NormalizeTrack(tracks[i]).duration_seconds])
           /\ Len(snapshot.tracks) = Len(tracks)
           /\ (Len(items) = 1 /\ Get(items[1], "type", "") = "master"
                  /\ Len(Get(items[1], "tracks", << >>)) = 1) =>
                 (snapshot.track_count = 1 /\ snapshot.artist_count = 1
                    /\ snapshot.album_count = 1)

\* The master playlist holds one track, without tags; the other playlist two tracks of
\* two more artists.
C23_Witness ==
    /\ Returned(snapshot)
    /\ Len(PlaylistsOf(data)) = 2
    /\ master = PlaylistsOf(data)[2]
    /\ Get(master, "tracks", << >>) = <<[id |-> 3, artist |-> "", tracklen |-> -1000]>>
    /\ Len(Get(PlaylistsOf(data)[1], "tracks", << >>)) = 2
    /\ snapshot.track_count = 1
    /\ snapshot.artist_count = 1
    /\ snapshot.total_duration_seconds = 0

\* positions of the playlists with a value under a key
With(items, key, value) ==
    { i \in 1..Len(items) : key \in DOMAIN items[i] /\ items[i][key] = value }
Least(S) == CHOOSE i \in S : \A j \in S : i <= j
Greatest(S) == CHOOSE i \in S : \A j \in S : i >= j

\* C24: the master playlist of a read is the first playlist of type "master" if there
\* is one, else the first playlist named "iPod" if there is one, else the first
\* playlist, else a playlist with no tracks.
C24_MasterPlaylistChoice ==
    master # NoMaster =>
        LET items == PlaylistsOf(data)
            masters == With(items, "type", "master")
            named == With(items, "name", "iPod")
        IN IF masters # {} THEN master = items[Least(masters)]
           ELSE IF named # {} THEN master = items[Least(named)]
           ELSE IF Len(items) > 0 THEN master = items[1]
           ELSE master = [tracks |-> << >>]

\* A playlist of type master was chosen though a playlist named iPod stands before it.
C24_Witness ==
    /\ master # NoMaster
    /\ Len(PlaylistsOf(data)) = 2
    /\ Get(PlaylistsOf(data)[1], "name", "") = "iPod"
    /\ Get(PlaylistsOf(data)[1], "type", "") = "playlist"
    /\ Get(PlaylistsOf(data)[2], "name", "") = "Mix"
    /\ master = PlaylistsOf(data)[2]
    /\ master # PlaylistsOf(data)[1]

\* the JSON objects of the model of at most n tokens, by their grammar
RECURSIVE JsonObjects(_)
JsonObjects(n) ==
    IF n < 2 THEN {}
    ELSE { <<"{", "}">> }
         \cup (IF n >= 3 THEN { <<"{", "m", "}">> } ELSE {})
         \cup { <<"{", "k">> \o obj \o <<"}">> : obj \in JsonObjects(n - 3) }

\* C25: the payload parsed from a listing text is the parse of the piece from its first
\* "{" to its last "}"; the parse fails with GpodError when there is no "{", no "}",
\* the last "}" stands before the first "{", or the piece is not a JSON object.
C25_PayloadBetweenFirstAndLastBrace ==
    (snapshot # NoSnapshot /\ ~mutated) =>
        LET opens == { i \in 1..Len(lsStdout) : lsStdout[i] = "{" }
            closes == { i \in 1..Len(lsStdout) : lsStdout[i] = "}" }
        IN IF opens = {} \/ closes = {} \/ Greatest(closes) < Least(opens)
           THEN snapshot = [error |-> NoJsonFound] /\ data = NoData
           ELSE LET piece == SubSeq(lsStdout, Least(opens), Greatest(closes))
                IN IF piece \in JsonObjects(Len(piece))
                   THEN /\ Returned(snapshot)
                        /\ data = JsonLoads(piece, db).value
                        /\ JsonLoads(piece, db).ok
                   ELSE snapshot = [error |-> NotJson] /\ data = NoData

\* An object was parsed from a text that begins with a stray "}" and ends in noise.
C25_Witness ==
    /\ lsStdout = <<"}", "x", "{", "}", "x">>
    /\ data = EmptyObj
    /\ Returned(snapshot)

-----------------------------------------------------------------------------
(* The recovery loop of load_library: candidates, probes, time.            *)

\* the discovery roots: the test of the replug has the device root /media-host/max/IPOD
\* found from the request /ipod; in the model the devices lie below /media
DiscoveryRoots == { Path(1, <<"media">>) }

\* the roots of the devices that are on disk with a database below a discovery root
ReadyRootsUnderDiscoveryRoots ==
    { Path(1, DevRoot(d)) : d \in { e \in Devices :
          /\ fs[e] = "ready"
          /\ \E r \in DiscoveryRoots : IsPrefix(r.parts, DevRoot(e)) } }

\* C26: when the requested path is a directory on disk, the candidates of a pass hold
\* every device root that lies with its database below a discovery root, also one that
\* does not lie below the requested path.
C26_DiscoveryRootsScanned ==
    [][(lpc = "pass" /\ lpc' = "cand" /\ IsDir(Abspath(LoadCwd, requested))) =>
          \A root \in ReadyRootsUnderDiscoveryRoots :
              \E i \in 1..Len(cands') : cands'[i].eff = root]_vars

\* a root followed by its known database sub-paths, as candidates
Block(root) ==
    <<[arg |-> root, eff |-> root]>>
        \o [i \in 1..3 |-> [arg |-> Join(root, DbSubPaths[i]), eff |-> root]]

\* the device roots with a database that lie at most MaxDepth levels below a directory
RootsBelow(dir) ==
    { Path(1, DevRoot(d)) : d \in { e \in Devices :
          /\ fs[e] = "ready"
          /\ IsPrefix(dir.parts, DevRoot(e))
          /\ Len(DevRoot(e)) - Len(dir.parts) <= MaxDepth } }

\* the candidates of a pass for the absolute request: the request first, then its
\* database sub-paths, then each discovered root followed by that root's sub-paths
InGenerationOrder(cs, request) ==
    IF IsFile(request)
    THEN cs = <<[arg |-> request, eff |-> request],
                [arg |-> Dirname(Dirname(request)), eff |-> Dirname(Dirname(request))]>>
    ELSE IF ~IsDir(request)
    THEN cs = <<[arg |-> request, eff |-> request]>>
    ELSE LET found == RootsBelow(request) \ {request}
         IN /\ Len(cs) = 4 * (1 + Cardinality(found))
            /\ SubSeq(cs, 1, 4) = Block(request)
            /\ \A k \in 1..Cardinality(found) :
                 \E root \in found : SubSeq(cs, 4 * k + 1, 4 * k + 4) = Block(root)

\* C27: the candidates of a pass stand in generation order with no (probe argument,
\* effective root) pair twice; the loop goes through them in this order, one step at a
\* time, over an unchanged list; and no probe of a running loop has ended with exit 0,
\* so the root a call returns is that of the earliest candidate that listed.
C27_ProbedInGenerationOrder ==
    /\ [](lpc \in {"pass", "cand", "ls", "sleep"} => lsOut.rc # 0)
    /\ [][/\ (lpc = "pass" /\ lpc' = "cand") =>
               /\ InGenerationOrder(cands', Abspath(LoadCwd, requested))
               /\ \A i, j \in 1..Len(cands') : cands'[i] = cands'[j] => i = j
               /\ ci' = 1
          /\ (lpc \in {"cand", "ls"} /\ lpc' \in {"cand", "ls"}) =>
               /\ cands' = cands
               /\ ci' \in IF lpc = "ls" /\ lpc' = "cand" THEN {ci + 1}
                          ELSE IF lpc' = "ls" THEN {ci}
                          ELSE {ci, ci + 1}
          /\ (lpc = "ls" /\ lpc' # "ls" /\ lsOut'.rc = 0) =>
               /\ lpc' = "done"
               /\ IsListing(lsOut') => lmount' = cands[ci].eff]_vars

\* Below /media both devices were discovered; the probes of the first discovered root
\* and of its sub-paths did not list, and the call has returned the second root.
C27_Witness ==
    /\ lpc = "done"
    /\ lresult.kind = "ok"
    /\ requested = Path(1, <<"media">>)
    /\ Len(cands) = 12
    /\ ci > 8
    /\ lmount = cands[ci].eff
    /\ lmount # cands[5].eff

ToolMissing == "gpod-ls is not installed"

\* C28: a probe of a candidate on disk either starts gpod-ls or, when the executable is
\* not found, ends load_library at once with the tool-missing error: no other candidate
\* is probed, the loop does not sleep and the recovery window is not waited for.  A
\* gpod-cp / gpod-rm that is not found, in the batch or at a target of the fallback,
\* ends add_tracks / delete_tracks with the tool-missing error, with no further launch.
C28_ToolMissingFailsAtOnce ==
    /\ [](lresult.kind = ToolMissing => lpc = "done")
    /\ [](\A o \in Ops : exc[o] = "FileNotFoundError" =>
             (pc[o] = "release" /\ tool[o] = "idle"
                /\ launches[o][Len(launches[o])].end = "FileNotFoundError"))
    /\ [][/\ (lpc = "cand" /\ ci <= Len(cands) /\ <<lpc, ci>>' # <<lpc, ci>>) =>
               IF Exists(cands[ci].arg)
               THEN \/ lpc' = "ls" /\ ci' = ci /\ lresult' = lresult
                    \/ lpc' = "done" /\ lresult' = Ret(ToolMissing, "")
               ELSE lpc' = "cand" /\ ci' = ci + 1
          /\ (lresult' # lresult /\ lresult'.kind = ToolMissing) =>
               /\ lpc = "cand" /\ Exists(cands[ci].arg)
               /\ <<recLeft, sleepLeft, attemptLeft, lsOut, lastMissing, ci>>'
                     = <<recLeft, sleepLeft, attemptLeft, lsOut, lastMissing, ci>>
          /\ \A o \in Ops :
               /\ (exc[o] = "FileNotFoundError" /\ pc'[o] # pc[o]) =>
                     /\ pc'[o] = "done"
                     /\ result'[o] = "tool is not installed"
                     /\ summary'[o] = NoSummary
                     /\ spawned'[o] = spawned[o]
               /\ (pc'[o] = "done" /\ pc[o] # "done"
                     /\ result'[o] = "tool is not installed") =>
                     exc[o] = "FileNotFoundError"]_vars

\* gpod-ls was not found at the first probe of the first pass, with the recovery window
\* still open and candidates left.
C28_Witness ==
    /\ lpc = "done"
    /\ lresult.kind = ToolMissing
    /\ lsOut = NoOut
    /\ recLeft = RecoveryWindow
    /\ ci = 1 /\ Len(cands) > 1

TimeoutMsg == "Timed out reading iTunesDB"

\* C29: a gpod-ls attempt that runs into its timeout while the recovery deadline has
\* not passed is tolerated: the loop stands at the next candidate of the same pass,
\* nothing is returned or raised, and later passes follow; an attempt that runs into its
\* timeout with the deadline passed ends the call with the timeout error, which arises
\* in no other way.
C29_TimeoutToleratedBeforeDeadline ==
    [][/\ (lpc = "ls" /\ lpc' # "ls" /\ lsOut' = TimedOut) =>
            IF recLeft > 0
            THEN /\ lpc' = "cand"
                 /\ ci' = ci + 1
                 /\ <<cands, lresult, lmount, lastMissing, sawAnyPath, recLeft>>'
                       = <<cands, lresult, lmount, lastMissing, sawAnyPath, recLeft>>
            ELSE /\ lpc' = "done"
                 /\ lresult' = Ret(TimeoutMsg, "")
       /\ (lresult' # lresult /\ lresult'.kind = TimeoutMsg) =>
            (lpc = "ls" /\ attemptLeft = 0 /\ recLeft = 0 /\ lsOut' = TimedOut)]_vars

\* An attempt timed out before the deadline, the pass went on to its end, the loop
\* slept and a new pass has begun.
C29_Witness ==
    /\ lpc = "cand"
    /\ ci = 1
    /\ lsOut = TimedOut
    /\ lresult = NoRet

\* the device roots below the request that hold a database now and at the start of this
\* pass, and held none at the start of the pass before
NewRoots == replug.new \cap RootsBelow(Abspath(LoadCwd, requested))

-----------------------------------------------------------------------------
(* The device scan.                                                        *)

\* one path lies strictly below another
Below(p, q) == Len(p.parts) > Len(q.parts) /\ IsPrefix(q.parts, p.parts)

\* C31: a scan ends; every directory it looks at lies at most MaxDepth levels below the
\* base (or is the base); it looks at no directory below one that holds a database;
\* every root it returns holds a database at a known sub-path, and no returned root
\* lies below another or is returned twice.  What it returns when no os.scandir raised
\* is what the candidates of load_library are built from.
C31_ScanBoundedAndStopsAtMarker ==
    /\ [](\A v \in scanVisited :
             /\ v.depth \in 0..MaxDepth
             /\ Len(v.path.parts) = Len(scanBase.parts) + v.depth
             /\ IsPrefix(scanBase.parts, v.path.parts)
             /\ \A w \in scanVisited : HasItunesdbUnderRoot(w.path) => ~Below(v.path, w.path))
    /\ [](\A i \in 1..Len(scanRoots) :
             /\ HasItunesdbUnderRoot(scanRoots[i])
             /\ \A j \in 1..Len(scanRoots) :
                  i # j => (scanRoots[i] # scanRoots[j] /\ ~Below(scanRoots[i], scanRoots[j])))
    /\ []((scanPc = "done" /\ ~scanErr) =>
             scanRoots = DiscoverIpodRootsWithin(scanBase, scanOrd))
    /\ (scanPc = "run" ~> scanPc = "done")

\* The scan of /media has returned /media/ipod and /media/max, and has not looked at
\* the device that is mounted below /media/max.
C31_Witness ==
    /\ scanPc = "done"
    /\ scanBase = Path(1, <<"media">>)
    /\ fs["dev2"] = "ready"
    /\ Len(scanRoots) = 2
    /\ \E i \in 1..2 : scanRoots[i] = Path(1, <<"media", "max">>)
    /\ \A v \in scanVisited : v.path # Path(1, DevRoot("dev2"))


-----------------------------------------------------------------------------
(* Conversions, reads and the fallback of delete beside the write lock.    *)

\* an add that has still to attempt the conversion of one of its sources
Converting(o) == pc[o] = "convert" /\ kind[o] = "add"
AllAttempted(o) == convertToAlac[o] => Convertible(o) \subseteq { a[1] : a \in attempted[o] }

\* C32: an add in its conversion phase has no lock descriptor open and holds no lock;
\* it leaves that phase for the lock only, and once it is at the lock or beyond a
\* conversion has been attempted for every convertible source; and a poll of another
\* operation that does not acquire the lock found it held by something that is not
\* converting.
C32_ConversionsOutsideLock ==
    /\ [](\A o \in Ops : Converting(o) =>
             /\ fd[o] = NoFile
             /\ \A e \in flocks : e[2] # o)
    /\ [](\A o \in Ops :
             (kind[o] = "add" /\ pc[o] \in {"enter_lock", "poll", "nap", "exec", "wait", "release"})
                => AllAttempted(o))
    /\ [][\A o \in Ops :
             /\ (Converting(o) /\ pc'[o] # "convert") => (pc'[o] = "enter_lock" /\ AllAttempted(o))
             /\ (pc[o] = "poll" /\ pc'[o] # "poll" /\ <<fd[o], o>> \notin flocks')
                   => \E h \in (Ops \ {o}) \cup {Foreign} :
                         /\ <<fd[o], h>> \in flocks
                         /\ h \in Ops => ~Converting(h)]_vars

\* One add has attempted a conversion and is still in its conversion phase while the
\* other operation, on the same normalised mountpoint, has acquired the lock and runs
\* its tool.
C32_Witness ==
    /\ fcntlAvailable
    /\ \E o1, o2 \in Ops :
         /\ o1 # o2
         /\ Converting(o1) /\ convertToAlac[o1] /\ attempted[o1] # {}
         /\ NormOf(o1) = NormOf(o2)
         /\ HoldsFlock(o2) /\ tool[o2] = "running"


\* the lock files of the model, and an operation polling for one of them
LockFiles == { LockPath(c.cwd, c.mp) : c \in Callers }
Waiting(o, f) == pc[o] \in {"poll", "nap"} /\ fd[o] = f

\* C33: whenever a lock file is free while an operation is polling for it (the holder
\* has released it, or there was none), some operation comes to hold it, under weak
\* fairness of the threads' steps and of time; which of several it is, is not fixed.
C33_FreeLockIsAcquired ==
    \A f \in LockFiles :
        (~Locked(f) /\ \E o \in Ops : Waiting(o, f))
            ~> (\E o \in Ops : <<f, o>> \in flocks)

\* One operation has run its tool under the lock and released it; the other, which has
\* found the lock taken, is asleep in the poll loop with its deadline still ahead.
C33_Witness ==
    \E o1, o2 \in Ops :
        /\ pc[o1] = "done" /\ spawned[o1]
        /\ pc[o2] = "nap" /\ lockLeft[o2] > 0
        /\ ~Locked(fd[o2])


\* a delete whose batched command could not be executed, before the first command of
\* its fallback
BeforeFallback(o) ==
    /\ kind[o] = "delete"
    /\ attempt[o] = "fallback"
    /\ pc[o] \in {"enter_lock", "poll", "nap"}

InFallback(o) == kind[o] = "delete" /\ attempt[o] = "fallback" /\ pc[o] \in {"exec", "wait"}
BetweenTargets(o) == InFallback(o) /\ pc[o] = "exec" /\ idx[o] >= 2

\* C35 as claimed: between two per-target commands of a fallback no tool of another
\* operation on the same normalised mountpoint runs.
C35_NothingRunsBetweenTargets ==
    \A o, p \in Ops :
        (o # p /\ BetweenTargets(o) /\ NormOf(p) = NormOf(o)) => tool[p] # "running"

\* C35, amended: with fcntl available, a delete holds its lock on the same descriptor
\* from the first per-target command of its fallback to the last, and while it is there
\* no other operation on the same normalised mountpoint launches or runs a tool.
C35_FallbackUnderOneLock ==
    /\ [](fcntlAvailable =>
            \A o \in Ops : InFallback(o) =>
                /\ HoldsFlock(o)
                /\ fd[o] = LockFileOf(o)
                /\ \A p \in Ops \ {o} :
                      NormOf(p) = NormOf(o) => (tool[p] # "running" /\ pc[p] # "exec"))
    /\ [][fcntlAvailable =>
            \A o \in Ops : (InFallback(o) /\ pc'[o] \in {"exec", "wait"}) =>
                /\ InFallback(o)'
                /\ fd'[o] = fd[o]
                /\ <<fd[o], o>> \in flocks']_vars

\* A delete is between the first and the second per-target command of its fallback
\* while the other operation, called with another spelling of the mountpoint, sleeps in
\* the poll loop of the same lock.
C35_Witness ==
    /\ fcntlAvailable
    /\ \E o, p \in Ops :
         /\ o # p
         /\ BetweenTargets(o)
         /\ pc[p] = "nap" /\ fd[p] = LockFileOf(o)
         /\ caller[p].mp # caller[o].mp


\* the write lock of the device mounted at /media/ipod
DeviceLock == LockPath(LoadCwd, Path(0, <<"ipod">>))
\* load_library is between its first pass and its return
Reading == lpc \in {"pass", "cand", "ls", "sleep"}

\* C36: no step of load_library changes a lock, a lock descriptor, or the position or
\* the lock deadline of a writer; a read under way can always take its next step, or
\* sleeps between two passes, whoever holds the write lock; and a writer's poll that
\* finds its lock free acquires it, whatever the read is doing.
C36_ReadIgnoresWriteLock ==
    /\ [][(lpc' # lpc \/ ci' # ci \/ cands' # cands \/ lsOut' # lsOut \/ lresult' # lresult)
             => UNCHANGED <<flocks, fd, pc, lockLeft, napLeft, exc>>]_vars
    /\ [](Reading => (ENABLED LoadStep \/ (lpc = "sleep" /\ sleepLeft > 0)))
    /\ [][\A o \in Ops :
             (Reading /\ pc[o] = "poll" /\ ~Locked(fd[o]) /\ pc'[o] # "poll")
                => (pc'[o] = "exec" /\ <<fd[o], o>> \in flocks')]_vars

\* The read has returned the device mounted at /media/ipod while another process holds
\* the write lock of that device and an add or delete, which has acquired its own lock,
\* runs its tool.
C36_Witness ==
    /\ lpc = "done" /\ lresult.kind = "ok"
    /\ lmount = Path(1, <<"media", "ipod">>)
    /\ <<DeviceLock, Foreign>> \in flocks
    /\ \E o \in Ops : HoldsFlock(o) /\ tool[o] = "running"


-----------------------------------------------------------------------------
(* A request that names the database file.                                 *)

\* the request is the database leaf file of device d, and the file is on disk
LeafRequestOf(d) == requested = Path(1, DevDb(d)) /\ IsFile(Path(1, DevDb(d)))

\* C37: when the request is the database leaf file of a device that is on disk, the
\* device's root is the effective root of one of the candidates generated for the pass,
\* and a read that succeeds reports the device's root as its mountpoint.
C37_LeafRequestReportsDeviceRoot ==
    /\ [][\A d \in Devices :
             (lpc = "pass" /\ lpc' = "cand" /\ LeafRequestOf(d))
                => \E i \in 1..Len(cands') : cands'[i].eff = Path(1, DevRoot(d))]_vars
    /\ [](\A d \in Devices :
             (lpc = "done" /\ lresult.kind = "ok" /\ requested = Path(1, DevDb(d)))
                => lmount = Path(1, DevRoot(d)))

====
